---- MODULE Spec2Model ----
(***************************************************************************)
(* Multi-station trigger / capture / detect / write-back pipeline of the   *)
(* areca-cut vision system.                                                *)
(*                                                                         *)
(*   PlcManager   (plc_manager.py)    the shared register link             *)
(*   CameraWorker (camera_worker.py)  one polling state machine per station*)
(*   MainWindow   (main_window.py)    start_system / stop_system / close   *)
(*   MockPlc      (mock_plc.py)       the controller side of the handshake *)
(*                                                                         *)
(* Measurements are floats in the program; here they are integers counting *)
(* hundredths (12.34 mm is 1234), so that int(v * 10) is an exact integer  *)
(* operation.  A Python value handed to the link is a record               *)
(* [isint, v]: isint tells an int from a float, v is its magnitude.        *)
(***************************************************************************)
EXTENDS Integers, Sequences, FiniteSets, TLC

\* ------------------------------------------------------------------ bounds
\* longest value list handed to write_multiple_registers by a link client
MaxLen == 2
\* half width of the windows of measurement values around each centre
EncSpan == 30

\* ------------------------------------------------------ program constants
READY == 10
PROCESSING == 127
IMAGE_READY == 128
UNKNOWN == 1
CUTTABLE == 2
RESERVED == 3
INT16_MIN == -32768
INT16_MAX == 32767

\* CAMERA_CONFIGS, by camera id: the first two of the eight stations of the
\* default configuration
CAMERA_CONFIGS == <<1, 2>>
Stations == {CAMERA_CONFIGS[i] : i \in DOMAIN CAMERA_CONFIGS}
Workers == Stations
Main == 0
Threads == {Main} \cup Workers
NoThread == -1
None == -99999

\* variant: the second station's entry is a copy of the first with only the
\* trigger address changed
Registers_copied(s) ==
  IF s = 1
    THEN [trigger |-> 100, class |-> 101, x_offset |-> 102, y_offset |-> 103,
          r_angle |-> 104, height |-> 105]
    ELSE [trigger |-> 100 + 10 * (s - 1), class |-> 101, x_offset |-> 102,
          y_offset |-> 103, r_angle |-> 104, height |-> 105]

\* register map of station s: get_default_config()["cameras"][s-1]["registers"]
Registers(s) ==
  [trigger  |-> 100 + 10 * (s - 1),
   class    |-> 101 + 10 * (s - 1),
   x_offset |-> 102 + 10 * (s - 1),
   y_offset |-> 103 + 10 * (s - 1),
   r_angle  |-> 104 + 10 * (s - 1),
   height   |-> 105 + 10 * (s - 1)]

\* the registers whose content is kept: those some party reads back, which
\* are the trigger registers (station and controller) and the block 0 .. MaxLen
\* (connect() test-reads register 0; link clients read the rest).  A write to
\* any other address reaches the transport but its content is not recorded.
Addrs == (0 .. MaxLen) \cup {100 + 10 * (s - 1) : s \in Stations}

PyInt(n) == [isint |-> TRUE, v |-> n]
PyFloat(n) == [isint |-> FALSE, v |-> n]

VARIABLES
  connected,            \* PlcManager.connected
  master,               \* PlcManager.master is not None
  lock,                 \* owner of PlcManager.lock, NoThread when free
  regs,                 \* holding registers of the controller
  op,                   \* per thread: the PlcManager call it is in
  pc,                   \* per worker: position in CameraWorker.run
  is_running,           \* CameraWorker.is_running
  is_camera_connected,  \* CameraWorker.is_camera_connected
  status,               \* last status_changed emitted by the worker
  result,               \* DetectionResult of the cycle in progress
  trace,                \* calls the worker made since its last loop test
  error_occurred,       \* last error_occurred the worker emitted since then
  trigger_value,        \* run(): the trigger value read in this loop iteration
  slept,                \* run(): the sleep that ended the last loop iteration
  mpc,                  \* position of the GUI thread
  midx,                 \* loop index of start_system / stop_system
  camera_workers,       \* MainWindow.camera_workers
  start_btn,            \* start button enabled
  stop_btn,             \* stop button enabled
  closing,              \* closeEvent is in progress
  mlog,                 \* last line the GUI thread logged about start / stop
  enc_in,               \* measurement handed to the fixed-point encoding
  enc_out,              \* register value it was encoded to
  det_mode,             \* detector under test: "mock", "obb" or "regular"
  det_img,              \* image handed to the detector under test
  det_out,              \* DetectionResult of the latest invocation
  det_prev,             \* DetectionResult of the invocation before it
  rw,                   \* position and data of the link read/write test
  threads               \* per CameraWorker object of camera_workers: its thread

linkVars == <<connected, master, lock, regs, op>>
workerVars == <<pc, is_running, is_camera_connected, status, result, trace,
                error_occurred, trigger_value, slept>>
mainVars == <<mpc, midx, camera_workers, start_btn, stop_btn, closing, mlog>>
encVars == <<enc_in, enc_out>>
detVars == <<det_mode, det_img, det_out, det_prev>>
benchVars == <<enc_in, enc_out, det_mode, det_img, det_out, det_prev, rw, threads>>
vars == <<connected, master, lock, regs, op, pc, is_running,
          is_camera_connected, status, result, trace, error_occurred,
          trigger_value, slept, mpc, midx,
          camera_workers, start_btn, stop_btn, closing, mlog, enc_in, enc_out,
          det_mode, det_img, det_out, det_prev, rw, threads>>

\* ------------------------------------------------------------- PlcManager
IdleOp ==
  [kind |-> "none", addr |-> 0, vals |-> <<>>, phase |-> "idle", ret |-> None,
   log |-> "none"]

\* a thread enters a PlcManager method; log is the logger.error line the
\* method has written by the time it returns
CallOp(kind, addr, vals) ==
  [kind |-> kind, addr |-> addr, vals |-> vals, phase |-> "call", ret |-> None,
   log |-> "none"]

\* the range check of write_multiple_registers on one value
ValueInRange(val) == val.isint /\ ~(val.v < INT16_MIN) /\ ~(val.v > INT16_MAX)

\* variant: only the first value of the list is checked
AllInRange_first(values) == Len(values) = 0 \/ ValueInRange(values[1])

\* for i, val in enumerate(values): ... return False
AllInRange(values) == \A i \in 1 .. Len(values) : ValueInRange(values[i])

\* the value a method returns when it gives up before reaching the transport
FailureOf(kind) == IF kind = "read" THEN None ELSE FALSE

\* logger.error of a method that gives up before the transport
GiveUpLog(o) ==
  CASE o.kind \in {"read", "write", "write_multi"} /\ ~connected -> "not connected"
    [] o.kind = "write_multi" /\ connected -> "out of range"
    [] OTHER -> "none"

\* variant: the except branches return without logging
FailLog_silent(o) == "none"

\* logger.error in the except branch around master.execute; disconnect prints
FailLog(o) == IF o.kind = "disconnect" THEN "none" ELSE "failed"

\* variant: write_single_register does not test self.connected
ReachesTransport_writeblind(o) ==
  CASE o.kind = "read" -> connected
    [] o.kind = "write" -> TRUE
    [] o.kind = "write_multi" -> connected /\ AllInRange(o.vals)
    [] o.kind = "disconnect" -> master /\ connected
    [] o.kind = "connect" -> TRUE
    [] OTHER -> FALSE

\* does the method, holding the lock, go on to the transport
ReachesTransport(o) ==
  CASE o.kind = "read" -> connected
    [] o.kind = "write" -> connected
    [] o.kind = "write_multi" -> connected /\ AllInRange(o.vals)
    [] o.kind = "disconnect" -> master /\ connected
    [] o.kind = "connect" -> TRUE
    [] OTHER -> FALSE

\* variant: the method does not take the lock
LockFreeFor_nolock(t) == TRUE

\* with self.lock: the checks made before the transport is used
LockFreeFor(t) == lock = NoThread \/ lock = t

PlcEnter(t) ==
  /\ op[t].phase = "call"
  /\ LockFreeFor(t)
  /\ IF ReachesTransport(op[t])
       THEN /\ lock' = t
            /\ op' = [op EXCEPT ![t].phase = "tx"]
       ELSE /\ lock' = lock
            /\ op' = [op EXCEPT ![t].phase = "ret",
                                ![t].ret = IF op[t].kind = "is_connected"
                                             THEN connected
                                             ELSE FailureOf(op[t].kind),
                                ![t].log = GiveUpLog(op[t])]
  /\ UNCHANGED <<connected, master, regs, workerVars, mainVars, benchVars>>

\* the 16-bit word master.execute puts on the wire for a value: packed as
\* unsigned when it is >= 0 and as signed otherwise; a register read is
\* unpacked as unsigned (no data_format is passed)
Word(v) == v % 65536

\* values the transport can pack into one register; any other raises
Packable(val) == val.isint /\ val.v >= INT16_MIN /\ val.v <= 65535

\* can master.execute succeed on the call at all
TransportAccepts(o) ==
  o.kind \in {"write", "write_multi"} => \A i \in 1 .. Len(o.vals) : Packable(o.vals[i])

\* value = result[0]: the register word as the transport unpacks it
WordRead(word) == word

\* registers after master.execute succeeded
RegsAfter(o) ==
  CASE o.kind = "write" ->
         [a \in Addrs |-> IF a = o.addr THEN Word(o.vals[1].v) ELSE regs[a]]
    [] o.kind = "write_multi" ->
         [a \in Addrs |-> IF a >= o.addr /\ a < o.addr + Len(o.vals)
                            THEN Word(o.vals[a - o.addr + 1].v)
                            ELSE regs[a]]
    [] OTHER -> regs

\* variant: an exception of the transport leaves the lock held
PlcExecute_keeplock(t) ==
  /\ op[t].phase = "tx"
  /\ \E ok \in (IF TransportAccepts(op[t]) THEN BOOLEAN ELSE {FALSE}) :
       /\ regs' = IF ok THEN RegsAfter(op[t]) ELSE regs
       /\ connected' = CASE op[t].kind = "connect" -> ok
                         [] op[t].kind = "disconnect" -> IF ok THEN FALSE ELSE connected
                         [] OTHER -> connected
       /\ master' = IF op[t].kind = "connect" THEN TRUE ELSE master
       /\ op' = [op EXCEPT ![t].phase = "ret",
                           ![t].ret = CASE op[t].kind = "read" ->
                                             IF ok THEN WordRead(regs[op[t].addr]) ELSE None
                                        [] op[t].kind = "disconnect" -> None
                                        [] OTHER -> ok,
                           ![t].log = IF ok THEN "none" ELSE FailLog(op[t])]
       /\ lock' = IF ok THEN NoThread ELSE lock
  /\ UNCHANGED <<workerVars, mainVars, benchVars>>

\* variant: a register operation that fails marks the link disconnected
PlcExecute_dropconn(t) ==
  /\ op[t].phase = "tx"
  /\ \E ok \in (IF TransportAccepts(op[t]) THEN BOOLEAN ELSE {FALSE}) :
       /\ regs' = IF ok THEN RegsAfter(op[t]) ELSE regs
       /\ connected' = CASE op[t].kind = "connect" -> ok
                         [] op[t].kind = "disconnect" -> IF ok THEN FALSE ELSE connected
                         [] OTHER -> IF ok THEN connected ELSE FALSE
       /\ master' = IF op[t].kind = "connect" THEN TRUE ELSE master
       /\ op' = [op EXCEPT ![t].phase = "ret",
                           ![t].ret = CASE op[t].kind = "read" ->
                                             IF ok THEN WordRead(regs[op[t].addr]) ELSE None
                                        [] op[t].kind = "disconnect" -> None
                                        [] OTHER -> ok,
                           ![t].log = IF ok THEN "none" ELSE FailLog(op[t])]
  /\ lock' = NoThread
  /\ UNCHANGED <<workerVars, mainVars, benchVars>>

\* master.execute / master.close returns or raises; the lock is released
PlcExecute(t) ==
  /\ op[t].phase = "tx"
  /\ \E ok \in (IF TransportAccepts(op[t]) THEN BOOLEAN ELSE {FALSE}) :
       /\ regs' = IF ok THEN RegsAfter(op[t]) ELSE regs
       /\ connected' = CASE op[t].kind = "connect" -> ok
                         [] op[t].kind = "disconnect" -> IF ok THEN FALSE ELSE connected
                         [] OTHER -> connected
       /\ master' = IF op[t].kind = "connect" THEN TRUE ELSE master
       /\ op' = [op EXCEPT ![t].phase = "ret",
                           ![t].ret = CASE op[t].kind = "read" ->
                                             IF ok THEN WordRead(regs[op[t].addr]) ELSE None
                                        [] op[t].kind = "disconnect" -> None
                                        [] OTHER -> ok,
                           ![t].log = IF ok THEN "none" ELSE FailLog(op[t])]
  /\ lock' = NoThread
  /\ UNCHANGED <<workerVars, mainVars, benchVars>>

Returned(t) == op[t].phase = "ret"

\* ---------------------------------------------------------- VisionDetector
\* DetectionResult(x_offset, y_offset, r_angle, height, classification,
\* confidence, box_coords, center_point); has_box stands for the two
\* optional fields being present
DetectionResult(x, y, r, h, c, conf, box) ==
  [x_offset |-> x, y_offset |-> y, r_angle |-> r, height |-> h,
   classification |-> c, confidence |-> conf, has_box |-> box]

\* getattr on a DetectionResult: only the dataclass fields exist
HasAttr(r, name) == name \in DOMAIN r

\* no result yet
NoResult == DetectionResult(0, 0, 0, 0, 0, 0, FALSE)

\* DetectionResult(0, 0, 0, 0, 1, 0.0): nothing detected, or detection failed
Unidentified == DetectionResult(0, 0, 0, 0, UNKNOWN, 0, FALSE)

\* what an image is to the detector: can its shape be read (an array of at
\* least two dimensions), does the model raise on it, how many boxes the model
\* finds, and for the best box its class id, confidence (in hundredths), centre
\* (in pixels from the image centre), height (pixels), the rotation of the
\* oriented box (in units of pi/36 rad) and the contour fit with its raw angle
\* (hundredths of a degree)
Image(wf, raises, n, cls, conf, cx, cy, bh, rot, fit, angle) ==
  [wellformed |-> wf, raises |-> raises, n |-> n, class_id |-> cls, conf |-> conf,
   cx |-> cx, cy |-> cy, bh |-> bh, rot |-> rot, fit |-> fit, angle |-> angle]

\* the configurations a detector ends up in: use_mock, or a model with is_obb
DetectorModes == {"mock", "obb", "regular"}

\* offset_px * self.pixel_to_mm with the default pixel_to_mm = 0.1, in
\* hundredths of a millimetre
PixelToMm(px) == px * 10

\* math.degrees(rotation), in hundredths of a degree
Degrees(rot) == rot * 500

\* if class_id == 0 and confidence > 0.5: 2 else: 1
ObbClass(img) == IF img.class_id = 0 /\ img.conf > 50 THEN CUTTABLE ELSE UNKNOWN

process_obb_result(img) ==
  IF img.n = 0 THEN Unidentified
  ELSE DetectionResult(PixelToMm(img.cx), PixelToMm(img.cy), Degrees(img.rot),
                       PixelToMm(img.bh), ObbClass(img), img.conf, TRUE)

\* fitEllipse angle: above 90 minus 180, below -90 plus 180; the angle of
\* minAreaRect as it is; no contour, an empty box or an exception: 0.0
calculate_rotation_angle(img) ==
  CASE img.fit = "ellipse" ->
         IF img.angle > 9000 THEN img.angle - 18000
         ELSE IF img.angle < -9000 THEN img.angle + 18000 ELSE img.angle
    [] img.fit = "rect" -> img.angle
    [] OTHER -> 0

\* class 0 with confidence > 0.5: 2; class 1: 1; anything else: 3
RegularClass(img) ==
  IF img.class_id = 0 /\ img.conf > 50 THEN CUTTABLE
  ELSE IF img.class_id = 1 THEN UNKNOWN ELSE RESERVED

process_regular_result(img) ==
  IF img.n = 0 THEN Unidentified
  ELSE DetectionResult(PixelToMm(img.cx), PixelToMm(img.cy),
                       calculate_rotation_angle(img), PixelToMm(img.bh),
                       RegularClass(img), img.conf, TRUE)

\* the numbers _mock_detect draws: random.choice([1, 2, 2, 2, 3]), the centre
\* (pixels), angle, height and confidence
MockDraw(choice, dx, dy, r, h, conf) ==
  [choice |-> choice, dx |-> dx, dy |-> dy, r |-> r, h |-> h, conf |-> conf]

\* the offsets of the mock result are the pixel offsets themselves
mock_detect(img, d) ==
  IF d.choice = CUTTABLE
    THEN DetectionResult(d.dx * 100, d.dy * 100, d.r, d.h, CUTTABLE, d.conf, TRUE)
    ELSE DetectionResult(0, 0, 0, 0, d.choice,
                         IF d.choice = UNKNOWN THEN d.conf ELSE 70, FALSE)

\* the model call and the processing of its result are inside try/except
detect_betel_nut(mode, img, d) ==
  IF mode = "mock" THEN mock_detect(img, d)
  ELSE IF img.raises \/ ~img.wellformed THEN Unidentified
  ELSE IF mode = "obb" THEN process_obb_result(img)
  ELSE process_regular_result(img)

\* detect_and_draw raises where no try/except covers it: _mock_detect reads
\* image.shape[1] for a Cuttable draw, draw_detection_result unpacks shape[:2]
DetectRaises(mode, img, d) ==
  \/ mode = "mock" /\ d.choice = CUTTABLE /\ ~img.wellformed
  \/ ~img.wellformed

\* images and draws of the stations' cycles: a cuttable nut, an array without
\* a shape, an empty image, a nut of class "other"
SampleImages ==
  { Image(TRUE, FALSE, 1, 0, 90, 125, -73, 250, 6, "ellipse", 3000),
    Image(FALSE, FALSE, 0, 0, 0, 0, 0, 0, 0, "none", 0),
    Image(TRUE, FALSE, 0, 0, 0, 0, 0, 0, 0, "none", 0),
    Image(TRUE, FALSE, 1, 2, 90, 125, -73, 250, 6, "ellipse", 3000) }

SampleDraws ==
  { MockDraw(RESERVED, 0, 0, 0, 0, 70),
    MockDraw(CUTTABLE, 100, -80, -4500, 2000, 85) }

\* what one call of detect_and_draw comes to: a result, or an exception
Outcome(state, r) == [state |-> state, result |-> r]

detect_and_draw(mode, img, d) ==
  IF DetectRaises(mode, img, d) THEN Outcome("raised", NoResult)
  ELSE Outcome("returned", detect_betel_nut(mode, img, d))

\* ------------------------------------------------------------ CameraWorker
\* variant: int(value) * 10, the value is truncated before it is scaled
Times10Int_whole(v) == (IF v >= 0 THEN v \div 100 ELSE -((-v) \div 100)) * 10

\* int(value * 10) on a value in hundredths: truncation toward zero
Times10Int(v) == IF v >= 0 THEN v \div 10 ELSE -((-v) \div 10)

Max(a, b) == IF a >= b THEN a ELSE b
Min(a, b) == IF a <= b THEN a ELSE b

\* variant: a clamp symmetric about zero
clamp_int16_symmetric(value) == Max(-INT16_MAX, Min(INT16_MAX, value))

\* def clamp_int16(value): return max(-32768, min(32767, value))
clamp_int16(value) == Max(INT16_MIN, Min(INT16_MAX, value))

\* x_int = clamp_int16(int(result.x_offset * 10))
Encode(v) == clamp_int16(Times10Int(v))

\* values = [x_int, y_int, r_int, h_int, head_int, l_int]
BlockValues(r) ==
  << PyInt(Encode(r.x_offset)), PyInt(Encode(r.y_offset)),
     PyInt(Encode(r.r_angle)), PyInt(Encode(r.height)),
     PyInt(r.head_direction), PyInt(Encode(r.length)) >>

\* building the list reads result.head_direction and result.length
CanBuildBlock(r) == HasAttr(r, "head_direction") /\ HasAttr(r, "length")

\* if result.classification == CLASS_VALUES['CUTTABLE']
WritesCoordinates(r) == r.classification = CUTTABLE

Ev(e, a, v, ok) == [e |-> e, a |-> a, v |-> v, ok |-> ok]

\* trigger_value before read_holding_register has returned in this iteration
NotRead == -88888

\* time.sleep(POLL_INTERVAL): the end of a loop iteration that raised nothing
SleepPoll(w) == [slept EXCEPT ![w] = "poll"]

\* run(): self.is_running = True
RunBegin(w) ==
  /\ pc[w] = "run"
  /\ is_running' = [is_running EXCEPT ![w] = TRUE]
  /\ pc' = [pc EXCEPT ![w] = "connect"]
  /\ UNCHANGED <<linkVars, is_camera_connected, status, result, trace, error_occurred,
                 trigger_value, slept,
                 mainVars, benchVars>>

\* variant: the failure is reported but run() goes on into the poll loop
ConnectCamera_noreturn(w) ==
  /\ pc[w] = "connect"
  /\ \E ok \in BOOLEAN :
       /\ is_camera_connected' = [is_camera_connected EXCEPT ![w] = ok]
       /\ status' = [status EXCEPT ![w] = "Standby"]
       /\ error_occurred' = [error_occurred EXCEPT ![w] =
                               IF ok THEN @ ELSE "camera connect failed"]
       /\ pc' = [pc EXCEPT ![w] = "loop"]
  /\ UNCHANGED <<linkVars, is_running, result, trace, trigger_value, slept,
                 mainVars, benchVars>>

\* run(): if not self._connect_camera(): error_occurred.emit(...); return
ConnectCamera(w) ==
  /\ pc[w] = "connect"
  /\ \E ok \in BOOLEAN :
       /\ is_camera_connected' = [is_camera_connected EXCEPT ![w] = ok]
       /\ status' = [status EXCEPT ![w] = IF ok THEN "Standby" ELSE status[w]]
       /\ error_occurred' = [error_occurred EXCEPT ![w] =
                               IF ok THEN @ ELSE "camera connect failed"]
       /\ pc' = [pc EXCEPT ![w] = IF ok THEN "loop" ELSE "terminated"]
  /\ UNCHANGED <<linkVars, is_running, result, trace, trigger_value, slept,
                 mainVars, benchVars>>

\* variant: the loop is left without _disconnect_camera()
LoopTest_norelease(w) ==
  /\ pc[w] = "loop"
  /\ IF is_running[w]
       THEN /\ op' = [op EXCEPT ![w] = CallOp("read", Registers(w).trigger, <<>>)]
            /\ pc' = [pc EXCEPT ![w] = "poll"]
       ELSE /\ pc' = [pc EXCEPT ![w] = "terminated"]
            /\ UNCHANGED op
  /\ trace' = [trace EXCEPT ![w] = <<>>]
  /\ error_occurred' = [error_occurred EXCEPT ![w] = "none"]
  /\ trigger_value' = [trigger_value EXCEPT ![w] = NotRead]
  /\ slept' = [slept EXCEPT ![w] = "none"]
  /\ UNCHANGED <<connected, master, lock, regs, is_running, is_camera_connected,
                 status, result, mainVars, benchVars>>

\* while self.is_running: read_holding_register(trigger) / else clean up
LoopTest(w) ==
  /\ pc[w] = "loop"
  /\ IF is_running[w]
       THEN /\ op' = [op EXCEPT ![w] = CallOp("read", Registers(w).trigger, <<>>)]
            /\ pc' = [pc EXCEPT ![w] = "poll"]
            /\ trace' = [trace EXCEPT ![w] = <<>>]
            /\ UNCHANGED is_camera_connected
       ELSE /\ is_camera_connected' = [is_camera_connected EXCEPT ![w] = FALSE]
            /\ pc' = [pc EXCEPT ![w] = "terminated"]
            /\ trace' = [trace EXCEPT ![w] = <<>>]
            /\ UNCHANGED op
  /\ error_occurred' = [error_occurred EXCEPT ![w] = "none"]
  /\ trigger_value' = [trigger_value EXCEPT ![w] = NotRead]
  /\ slept' = [slept EXCEPT ![w] = "none"]
  /\ UNCHANGED <<connected, master, lock, regs, is_running, status, result, mainVars, benchVars>>

\* variant: every value from Ready up starts a cycle
PollReturn_atleast(w) ==
  /\ pc[w] = "poll"
  /\ Returned(w)
  /\ IF op[w].ret >= READY
       THEN /\ status' = [status EXCEPT ![w] = "Capturing"]
            /\ op' = [op EXCEPT ![w] = CallOp("write", Registers(w).trigger, <<PyInt(PROCESSING)>>)]
            /\ pc' = [pc EXCEPT ![w] = "w_processing"]
       ELSE /\ op' = [op EXCEPT ![w] = IdleOp]
            /\ pc' = [pc EXCEPT ![w] = "loop"]
            /\ UNCHANGED status
  /\ trigger_value' = [trigger_value EXCEPT ![w] = op[w].ret]
  /\ slept' = IF op[w].ret >= READY THEN slept ELSE SleepPoll(w)
  /\ UNCHANGED <<connected, master, lock, regs, is_running, is_camera_connected,
                 result, trace, error_occurred, mainVars, benchVars>>

\* if trigger_value == READY: _process_trigger() step 1; time.sleep(POLL_INTERVAL)
PollReturn(w) ==
  /\ pc[w] = "poll"
  /\ Returned(w)
  /\ IF op[w].ret = READY
       THEN /\ status' = [status EXCEPT ![w] = "Capturing"]
            /\ op' = [op EXCEPT ![w] = CallOp("write", Registers(w).trigger, <<PyInt(PROCESSING)>>)]
            /\ pc' = [pc EXCEPT ![w] = "w_processing"]
       ELSE /\ op' = [op EXCEPT ![w] = IdleOp]
            /\ pc' = [pc EXCEPT ![w] = "loop"]
            /\ UNCHANGED status
  /\ trigger_value' = [trigger_value EXCEPT ![w] = op[w].ret]
  /\ slept' = IF op[w].ret = READY THEN slept ELSE SleepPoll(w)
  /\ UNCHANGED <<connected, master, lock, regs, is_running, is_camera_connected,
                 result, trace, error_occurred, mainVars, benchVars>>

\* variant: the result of the Processing write is not looked at
ProcessingReturn_ignore(w) ==
  /\ pc[w] = "w_processing"
  /\ Returned(w)
  /\ trace' = [trace EXCEPT ![w] = Append(@, Ev("W", op[w].addr, <<op[w].vals[1].v>>, op[w].ret))]
  /\ pc' = [pc EXCEPT ![w] = "capture"]
  /\ op' = [op EXCEPT ![w] = IdleOp]
  /\ UNCHANGED <<connected, master, lock, regs, is_running, is_camera_connected,
                 status, result, error_occurred, trigger_value, slept,
                 mainVars, benchVars>>

\* _process_trigger(): the Processing write returned
ProcessingReturn(w) ==
  /\ pc[w] = "w_processing"
  /\ Returned(w)
  /\ trace' = [trace EXCEPT ![w] = Append(@, Ev("W", op[w].addr, <<op[w].vals[1].v>>, op[w].ret))]
  /\ pc' = [pc EXCEPT ![w] = IF op[w].ret THEN "capture" ELSE "loop"]
  /\ error_occurred' = [error_occurred EXCEPT ![w] =
                          IF op[w].ret THEN @ ELSE "processing write failed"]
  /\ op' = [op EXCEPT ![w] = IdleOp]
  /\ slept' = IF op[w].ret THEN slept ELSE SleepPoll(w)
  /\ UNCHANGED <<connected, master, lock, regs, is_running, is_camera_connected,
                 status, result, trigger_value,
                 mainVars, benchVars>>

\* variant: step 3 is left out, detection follows the capture directly
Capture_no128(w) ==
  /\ pc[w] = "capture"
  /\ \E got \in (IF is_camera_connected[w] THEN BOOLEAN ELSE {FALSE}) :
       /\ trace' = [trace EXCEPT ![w] = Append(@, Ev("CAP", 0, <<>>, got))]
       /\ error_occurred' = [error_occurred EXCEPT ![w] =
                               IF got THEN @ ELSE "capture failed"]
       /\ IF got
            THEN /\ op' = [op EXCEPT ![w] = IdleOp]
                 /\ pc' = [pc EXCEPT ![w] = "detect"]
            ELSE /\ op' = [op EXCEPT ![w] = CallOp("write", Registers(w).class, <<PyInt(UNKNOWN)>>)]
                 /\ pc' = [pc EXCEPT ![w] = "w_error_capture"]
  /\ UNCHANGED <<connected, master, lock, regs, is_running, is_camera_connected,
                 status, result, trigger_value, slept,
                 mainVars, benchVars>>

\* variant: the image is not tested for None, step 3 follows any capture
Capture_nocheck(w) ==
  /\ pc[w] = "capture"
  /\ \E got \in (IF is_camera_connected[w] THEN BOOLEAN ELSE {FALSE}) :
       /\ trace' = [trace EXCEPT ![w] = Append(@, Ev("CAP", 0, <<>>, got))]
       /\ error_occurred' = error_occurred
       /\ op' = [op EXCEPT ![w] = CallOp("write", Registers(w).trigger, <<PyInt(IMAGE_READY)>>)]
       /\ pc' = [pc EXCEPT ![w] = "w_imageready"]
  /\ UNCHANGED <<connected, master, lock, regs, is_running, is_camera_connected,
                 status, result, trigger_value, slept,
                 mainVars, benchVars>>

\* variant: a failed capture drops the capture source of every station
Capture_dropall(w) ==
  /\ pc[w] = "capture"
  /\ \E got \in (IF is_camera_connected[w] THEN BOOLEAN ELSE {FALSE}) :
       /\ trace' = [trace EXCEPT ![w] = Append(@, Ev("CAP", 0, <<>>, got))]
       /\ error_occurred' = [error_occurred EXCEPT ![w] =
                               IF got THEN @ ELSE "capture failed"]
       /\ is_camera_connected' =
            IF got THEN is_camera_connected ELSE [x \in Workers |-> FALSE]
       /\ IF got
            THEN /\ op' = [op EXCEPT ![w] = CallOp("write", Registers(w).trigger, <<PyInt(IMAGE_READY)>>)]
                 /\ pc' = [pc EXCEPT ![w] = "w_imageready"]
            ELSE /\ op' = [op EXCEPT ![w] = CallOp("write", Registers(w).class, <<PyInt(UNKNOWN)>>)]
                 /\ pc' = [pc EXCEPT ![w] = "w_error_capture"]
  /\ UNCHANGED <<connected, master, lock, regs, is_running,
                 status, result, trigger_value, slept,
                 mainVars, benchVars>>

\* variant: the stop flag is looked at before the capture, a stopped worker
\* leaves the cycle there
Capture_stopaware(w) ==
  /\ pc[w] = "capture"
  /\ IF ~is_running[w]
       THEN /\ pc' = [pc EXCEPT ![w] = "loop"]
            /\ op' = [op EXCEPT ![w] = IdleOp]
            /\ UNCHANGED <<trace, error_occurred>>
       ELSE \E got \in (IF is_camera_connected[w] THEN BOOLEAN ELSE {FALSE}) :
            /\ trace' = [trace EXCEPT ![w] = Append(@, Ev("CAP", 0, <<>>, got))]
            /\ error_occurred' = [error_occurred EXCEPT ![w] =
                                    IF got THEN @ ELSE "capture failed"]
            /\ IF got
                 THEN /\ op' = [op EXCEPT ![w] = CallOp("write", Registers(w).trigger, <<PyInt(IMAGE_READY)>>)]
                      /\ pc' = [pc EXCEPT ![w] = "w_imageready"]
                 ELSE /\ op' = [op EXCEPT ![w] = CallOp("write", Registers(w).class, <<PyInt(UNKNOWN)>>)]
                      /\ pc' = [pc EXCEPT ![w] = "w_error_capture"]
  /\ slept' = IF ~is_running[w] THEN SleepPoll(w) ELSE slept
  /\ UNCHANGED <<connected, master, lock, regs, is_running, is_camera_connected,
                 status, result, trigger_value,
                 mainVars, benchVars>>

\* variant: after a failed capture the trigger register is reset to 0
Capture_resettrigger(w) ==
  /\ pc[w] = "capture"
  /\ \E got \in (IF is_camera_connected[w] THEN BOOLEAN ELSE {FALSE}) :
       /\ trace' = [trace EXCEPT ![w] = Append(@, Ev("CAP", 0, <<>>, got))]
       /\ error_occurred' = [error_occurred EXCEPT ![w] =
                               IF got THEN @ ELSE "capture failed"]
       /\ IF got
            THEN /\ op' = [op EXCEPT ![w] = CallOp("write", Registers(w).trigger, <<PyInt(IMAGE_READY)>>)]
                 /\ pc' = [pc EXCEPT ![w] = "w_imageready"]
            ELSE /\ op' = [op EXCEPT ![w] = CallOp("write", Registers(w).trigger, <<PyInt(0)>>)]
                 /\ pc' = [pc EXCEPT ![w] = "w_error_capture"]
  /\ UNCHANGED <<connected, master, lock, regs, is_running, is_camera_connected,
                 status, result, trigger_value, slept,
                 mainVars, benchVars>>

\* image = self._capture_image(); None -> _write_error_result(); else write 128
Capture(w) ==
  /\ pc[w] = "capture"
  /\ \E got \in (IF is_camera_connected[w] THEN BOOLEAN ELSE {FALSE}) :
       /\ trace' = [trace EXCEPT ![w] = Append(@, Ev("CAP", 0, <<>>, got))]
       /\ error_occurred' = [error_occurred EXCEPT ![w] =
                               IF got THEN @ ELSE "capture failed"]
       /\ IF got
            THEN /\ op' = [op EXCEPT ![w] = CallOp("write", Registers(w).trigger, <<PyInt(IMAGE_READY)>>)]
                 /\ pc' = [pc EXCEPT ![w] = "w_imageready"]
            ELSE /\ op' = [op EXCEPT ![w] = CallOp("write", Registers(w).class, <<PyInt(UNKNOWN)>>)]
                 /\ pc' = [pc EXCEPT ![w] = "w_error_capture"]
  /\ UNCHANGED <<connected, master, lock, regs, is_running, is_camera_connected,
                 status, result, trigger_value, slept,
                 mainVars, benchVars>>

\* _write_error_result() returned; the exception path then emits Standby
ErrorResultReturn(w) ==
  /\ pc[w] \in {"w_error_capture", "w_error_exception"}
  /\ Returned(w)
  /\ trace' = [trace EXCEPT ![w] = Append(@, Ev("W", op[w].addr, <<op[w].vals[1].v>>, op[w].ret))]
  /\ status' = [status EXCEPT ![w] = IF pc[w] = "w_error_exception" THEN "Standby" ELSE @]
  /\ pc' = [pc EXCEPT ![w] = "loop"]
  /\ op' = [op EXCEPT ![w] = IdleOp]
  /\ slept' = SleepPoll(w)
  /\ UNCHANGED <<connected, master, lock, regs, is_running, is_camera_connected,
                 result, error_occurred, trigger_value,
                 mainVars, benchVars>>

\* variant: a failed ImageReady write ends the worker's poll loop
ImageReadyReturn_fatal(w) ==
  /\ pc[w] = "w_imageready"
  /\ Returned(w)
  /\ trace' = [trace EXCEPT ![w] = Append(@, Ev("W", op[w].addr, <<op[w].vals[1].v>>, op[w].ret))]
  /\ pc' = [pc EXCEPT ![w] = IF op[w].ret THEN "detect" ELSE "terminated"]
  /\ error_occurred' = [error_occurred EXCEPT ![w] =
                          IF op[w].ret THEN @ ELSE "image ready write failed"]
  /\ op' = [op EXCEPT ![w] = IdleOp]
  /\ slept' = IF op[w].ret THEN slept ELSE SleepPoll(w)
  /\ UNCHANGED <<connected, master, lock, regs, is_running, is_camera_connected,
                 status, result, trigger_value,
                 mainVars, benchVars>>

\* variant: a failed ImageReady write is followed by _write_error_result()
ImageReadyReturn_errorresult(w) ==
  /\ pc[w] = "w_imageready"
  /\ Returned(w)
  /\ trace' = [trace EXCEPT ![w] = Append(@, Ev("W", op[w].addr, <<op[w].vals[1].v>>, op[w].ret))]
  /\ pc' = [pc EXCEPT ![w] = IF op[w].ret THEN "detect" ELSE "w_error_capture"]
  /\ error_occurred' = [error_occurred EXCEPT ![w] =
                          IF op[w].ret THEN @ ELSE "image ready write failed"]
  /\ op' = [op EXCEPT ![w] = IF op[w].ret THEN IdleOp
                              ELSE CallOp("write", Registers(w).class, <<PyInt(UNKNOWN)>>)]
  /\ UNCHANGED <<connected, master, lock, regs, is_running, is_camera_connected,
                 status, result, trigger_value, slept, mainVars, benchVars>>

\* variant: the result of the ImageReady write is not looked at
ImageReadyReturn_ignore(w) ==
  /\ pc[w] = "w_imageready"
  /\ Returned(w)
  /\ trace' = [trace EXCEPT ![w] = Append(@, Ev("W", op[w].addr, <<op[w].vals[1].v>>, op[w].ret))]
  /\ pc' = [pc EXCEPT ![w] = "detect"]
  /\ op' = [op EXCEPT ![w] = IdleOp]
  /\ UNCHANGED <<connected, master, lock, regs, is_running, is_camera_connected,
                 status, result, error_occurred, trigger_value, slept,
                 mainVars, benchVars>>

\* _process_trigger(): the ImageReady write returned
ImageReadyReturn(w) ==
  /\ pc[w] = "w_imageready"
  /\ Returned(w)
  /\ trace' = [trace EXCEPT ![w] = Append(@, Ev("W", op[w].addr, <<op[w].vals[1].v>>, op[w].ret))]
  /\ pc' = [pc EXCEPT ![w] = IF op[w].ret THEN "detect" ELSE "loop"]
  /\ error_occurred' = [error_occurred EXCEPT ![w] =
                          IF op[w].ret THEN @ ELSE "image ready write failed"]
  /\ op' = [op EXCEPT ![w] = IdleOp]
  /\ slept' = IF op[w].ret THEN slept ELSE SleepPoll(w)
  /\ UNCHANGED <<connected, master, lock, regs, is_running, is_camera_connected,
                 status, result, trigger_value,
                 mainVars, benchVars>>

\* variant: the class register is given the confidence score of the result
Detect_confidence(w) ==
  /\ pc[w] = "detect"
  /\ status' = [status EXCEPT ![w] = "Computing"]
  /\ \E m \in DetectorModes, i \in SampleImages, d \in SampleDraws :
       LET out == detect_and_draw(m, i, d) IN
       IF out.state = "returned"
         THEN /\ result' = [result EXCEPT ![w] = out.result]
              /\ trace' = [trace EXCEPT ![w] =
                             Append(@, Ev("DET", 0, <<out.result.classification>>, TRUE))]
              /\ op' = [op EXCEPT ![w] = CallOp("write", Registers(w).class,
                                                <<PyFloat(out.result.confidence)>>)]
              /\ pc' = [pc EXCEPT ![w] = "w_class"]
              /\ UNCHANGED error_occurred
         ELSE /\ result' = result
              /\ error_occurred' = [error_occurred EXCEPT ![w] = "process exception"]
              /\ trace' = [trace EXCEPT ![w] = Append(@, Ev("DET", 0, <<>>, FALSE))]
              /\ op' = [op EXCEPT ![w] = CallOp("write", Registers(w).class, <<PyInt(UNKNOWN)>>)]
              /\ pc' = [pc EXCEPT ![w] = "w_error_exception"]
  /\ UNCHANGED <<connected, master, lock, regs, is_running, is_camera_connected,
                 trigger_value, slept,
                 mainVars, benchVars>>

\* detect_and_draw(image), then _write_result_to_plc: the class write;
\* an exception goes to the handler of _process_trigger
Detect(w) ==
  /\ pc[w] = "detect"
  /\ status' = [status EXCEPT ![w] = "Computing"]
  /\ \E m \in DetectorModes, i \in SampleImages, d \in SampleDraws :
       LET out == detect_and_draw(m, i, d) IN
       IF out.state = "returned"
         THEN /\ result' = [result EXCEPT ![w] = out.result]
              /\ trace' = [trace EXCEPT ![w] =
                             Append(@, Ev("DET", 0, <<out.result.classification>>, TRUE))]
              /\ op' = [op EXCEPT ![w] = CallOp("write", Registers(w).class,
                                                <<PyInt(out.result.classification)>>)]
              /\ pc' = [pc EXCEPT ![w] = "w_class"]
              /\ UNCHANGED error_occurred
         ELSE /\ result' = result
              /\ error_occurred' = [error_occurred EXCEPT ![w] = "process exception"]
              /\ trace' = [trace EXCEPT ![w] = Append(@, Ev("DET", 0, <<>>, FALSE))]
              /\ op' = [op EXCEPT ![w] = CallOp("write", Registers(w).class, <<PyInt(UNKNOWN)>>)]
              /\ pc' = [pc EXCEPT ![w] = "w_error_exception"]
  /\ UNCHANGED <<connected, master, lock, regs, is_running, is_camera_connected,
                 trigger_value, slept,
                 mainVars, benchVars>>

\* the error _write_result_to_plc emits when it gives up after a call returned
WriteResultError(w) ==
  CASE ~op[w].ret /\ pc[w] = "w_class" -> "class write failed"
    [] ~op[w].ret /\ pc[w] = "w_coords" -> "coordinate write failed"
    [] op[w].ret /\ pc[w] = "w_class" /\ WritesCoordinates(result[w]) ->
         "write result exception"
    [] OTHER -> error_occurred[w]

\* variant: the four-value block is written after any class, not only Cuttable
WriteResultResume_anyclass(w) ==
  /\ pc[w] \in {"w_class", "w_coords"}
  /\ Returned(w)
  /\ IF pc[w] = "w_class" /\ op[w].ret
       THEN /\ trace' = [trace EXCEPT ![w] = Append(@, Ev("W", op[w].addr, <<op[w].vals[1].v>>, op[w].ret))]
            /\ op' = [op EXCEPT ![w] = CallOp("write_multi", Registers(w).x_offset,
                        << PyInt(Encode(result[w].x_offset)), PyInt(Encode(result[w].y_offset)),
                           PyInt(Encode(result[w].r_angle)), PyInt(Encode(result[w].height)) >>)]
            /\ pc' = [pc EXCEPT ![w] = "w_coords"]
            /\ UNCHANGED <<status, result, error_occurred>>
       ELSE /\ trace' = [trace EXCEPT ![w] =
                 Append(@, Ev(IF pc[w] = "w_class" THEN "W" ELSE "WM", op[w].addr,
                              [i \in 1 .. Len(op[w].vals) |-> op[w].vals[i].v], op[w].ret))]
            /\ op' = [op EXCEPT ![w] = IdleOp]
            /\ status' = [status EXCEPT ![w] = "Standby"]
            /\ result' = [result EXCEPT ![w] = NoResult]
            /\ error_occurred' = [error_occurred EXCEPT ![w] = WriteResultError(w)]
            /\ pc' = [pc EXCEPT ![w] = "loop"]
  /\ slept' = IF pc'[w] = "loop" THEN SleepPoll(w) ELSE slept
  /\ UNCHANGED <<connected, master, lock, regs, is_running, is_camera_connected,
                 trigger_value,
                 mainVars, benchVars>>

\* _write_result_to_plc() after a PlcManager call returned, up to Standby
WriteResultResume(w) ==
  /\ pc[w] \in {"w_class", "w_coords"}
  /\ Returned(w)
  /\ IF pc[w] = "w_class" /\ op[w].ret /\ WritesCoordinates(result[w]) /\ CanBuildBlock(result[w])
       THEN /\ trace' = [trace EXCEPT ![w] = Append(@, Ev("W", op[w].addr, <<op[w].vals[1].v>>, op[w].ret))]
            /\ op' = [op EXCEPT ![w] = CallOp("write_multi", Registers(w).x_offset, BlockValues(result[w]))]
            /\ pc' = [pc EXCEPT ![w] = "w_coords"]
            /\ UNCHANGED <<status, result, error_occurred>>
       ELSE /\ trace' = [trace EXCEPT ![w] =
                 Append(@, Ev(IF pc[w] = "w_class" THEN "W" ELSE "WM", op[w].addr,
                              [i \in 1 .. Len(op[w].vals) |-> op[w].vals[i].v], op[w].ret))]
            /\ op' = [op EXCEPT ![w] = IdleOp]
            /\ status' = [status EXCEPT ![w] = "Standby"]
            /\ result' = [result EXCEPT ![w] = NoResult]
            /\ error_occurred' = [error_occurred EXCEPT ![w] = WriteResultError(w)]
            /\ pc' = [pc EXCEPT ![w] = "loop"]
  /\ slept' = IF pc'[w] = "loop" THEN SleepPoll(w) ELSE slept
  /\ UNCHANGED <<connected, master, lock, regs, is_running, is_camera_connected,
                 trigger_value,
                 mainVars, benchVars>>

\* stop(): self.is_running = False
stop(w) == [is_running EXCEPT ![w] = FALSE]

\* ---------------------------------------------------------------- MockPlc
\* _auto_trigger_worker: a trigger register holding 128 is reset to 0
ControllerReset(s) ==
  /\ regs[Registers(s).trigger] = IMAGE_READY
  /\ regs' = [regs EXCEPT ![Registers(s).trigger] = 0]
  /\ UNCHANGED <<connected, master, lock, op, workerVars, mainVars, benchVars>>

\* _auto_trigger_worker: a trigger register holding 0 is set to 10
ControllerTrigger(s) ==
  /\ regs[Registers(s).trigger] = 0
  /\ regs' = [regs EXCEPT ![Registers(s).trigger] = READY]
  /\ UNCHANGED <<connected, master, lock, op, workerVars, mainVars, benchVars>>

\* -------------------------------------------------------------- MainWindow
\* start button clicked: start_system() asks is_connected()
StartSystem ==
  /\ mpc = "idle"
  /\ start_btn
  /\ op' = [op EXCEPT ![Main] = CallOp("is_connected", 0, <<>>)]
  /\ mpc' = "start_check"
  /\ UNCHANGED <<connected, master, lock, regs, workerVars, midx, camera_workers,
                 start_btn, stop_btn, closing, mlog, benchVars>>

\* variant: the connection state is logged but not tested
StartCheck_nocheck ==
  /\ mpc = "start_check"
  /\ Returned(Main)
  /\ mpc' = "start_loop"
  /\ mlog' = "creating workers"
  /\ midx' = 1
  /\ op' = [op EXCEPT ![Main] = IdleOp]
  /\ UNCHANGED <<connected, master, lock, regs, workerVars, camera_workers,
                 start_btn, stop_btn, closing, benchVars>>

\* if not plc_connected: return
StartCheck ==
  /\ mpc = "start_check"
  /\ Returned(Main)
  /\ mpc' = IF op[Main].ret THEN "start_loop" ELSE "idle"
  /\ mlog' = IF op[Main].ret THEN "creating workers" ELSE "PLC not connected"
  /\ midx' = 1
  /\ op' = [op EXCEPT ![Main] = IdleOp]
  /\ UNCHANGED <<connected, master, lock, regs, workerVars, camera_workers,
                 start_btn, stop_btn, closing, benchVars>>

\* for cam_config in CAMERA_CONFIGS: worker = CameraWorker(...); append; start()
\* after the loop the buttons are switched
StartWorker ==
  /\ mpc = "start_loop"
  /\ IF midx <= Len(CAMERA_CONFIGS)
       THEN /\ pc' = [pc EXCEPT ![CAMERA_CONFIGS[midx]] = "run"]
            /\ is_running' = [is_running EXCEPT ![CAMERA_CONFIGS[midx]] = FALSE]
            /\ is_camera_connected' = [is_camera_connected EXCEPT ![CAMERA_CONFIGS[midx]] = FALSE]
            /\ status' = [status EXCEPT ![CAMERA_CONFIGS[midx]] = "Offline"]
            /\ result' = [result EXCEPT ![CAMERA_CONFIGS[midx]] = NoResult]
            /\ trace' = [trace EXCEPT ![CAMERA_CONFIGS[midx]] = <<>>]
            /\ error_occurred' = [error_occurred EXCEPT ![CAMERA_CONFIGS[midx]] = "none"]
            /\ trigger_value' = [trigger_value EXCEPT ![CAMERA_CONFIGS[midx]] = NotRead]
            /\ slept' = [slept EXCEPT ![CAMERA_CONFIGS[midx]] = "none"]
            /\ camera_workers' = Append(camera_workers, CAMERA_CONFIGS[midx])
            /\ midx' = midx + 1
            /\ UNCHANGED <<mpc, start_btn, stop_btn, mlog>>
       ELSE /\ start_btn' = FALSE
            /\ stop_btn' = TRUE
            /\ mlog' = "all workers started"
            /\ mpc' = "idle"
            /\ UNCHANGED <<workerVars, camera_workers, midx>>
  /\ UNCHANGED <<linkVars, closing, benchVars>>

\* stop button clicked, or the window is closed: closeEvent()
StopSystem ==
  /\ mpc = "idle"
  /\ \E close \in BOOLEAN :
       /\ close \/ stop_btn
       /\ closing' = close
       /\ IF close /\ camera_workers = <<>>
            THEN /\ op' = [op EXCEPT ![Main] = CallOp("disconnect", 0, <<>>)]
                 /\ mpc' = "close_disconnect"
                 /\ UNCHANGED midx
            ELSE /\ midx' = 1
                 /\ mpc' = "stop_loop"
                 /\ UNCHANGED op
  /\ UNCHANGED <<connected, master, lock, regs, workerVars, camera_workers,
                 start_btn, stop_btn, mlog, benchVars>>

\* variant: worker.wait() is left out, the loop goes on after stop()
StopWorker_nowait ==
  /\ mpc = "stop_loop"
  /\ IF midx <= Len(camera_workers)
       THEN /\ is_running' = stop(camera_workers[midx])
            /\ midx' = midx + 1
            /\ UNCHANGED <<mpc, camera_workers, start_btn, stop_btn, op, mlog>>
       ELSE /\ camera_workers' = <<>>
            /\ start_btn' = TRUE
            /\ stop_btn' = FALSE
            /\ mlog' = "system stopped"
            /\ IF closing
                 THEN /\ op' = [op EXCEPT ![Main] = CallOp("disconnect", 0, <<>>)]
                      /\ mpc' = "close_disconnect"
                 ELSE /\ mpc' = "idle"
                      /\ UNCHANGED op
            /\ UNCHANGED <<is_running, midx>>
  /\ UNCHANGED <<connected, master, lock, regs, pc, is_camera_connected, status,
                 result, trace, error_occurred, trigger_value, slept, closing,
                 benchVars>>

\* for worker in self.camera_workers: worker.stop() ...; after the loop the
\* list is cleared and the buttons are switched; closeEvent then disconnects
StopWorker ==
  /\ mpc = "stop_loop"
  /\ IF midx <= Len(camera_workers)
       THEN /\ is_running' = stop(camera_workers[midx])
            /\ mpc' = "stop_wait"
            /\ UNCHANGED <<camera_workers, start_btn, stop_btn, op, mlog>>
       ELSE /\ camera_workers' = <<>>
            /\ start_btn' = TRUE
            /\ stop_btn' = FALSE
            /\ mlog' = "system stopped"
            /\ IF closing
                 THEN /\ op' = [op EXCEPT ![Main] = CallOp("disconnect", 0, <<>>)]
                      /\ mpc' = "close_disconnect"
                 ELSE /\ mpc' = "idle"
                      /\ UNCHANGED op
            /\ UNCHANGED is_running
  /\ UNCHANGED <<connected, master, lock, regs, pc, is_camera_connected, status,
                 result, trace, error_occurred, trigger_value, slept, midx, closing,
                 benchVars>>

\* ... worker.wait(): returns once the worker thread has finished
WaitWorker ==
  /\ mpc = "stop_wait"
  /\ pc[camera_workers[midx]] = "terminated"
  /\ midx' = midx + 1
  /\ mpc' = "stop_loop"
  /\ UNCHANGED <<linkVars, workerVars, camera_workers, start_btn, stop_btn, closing,
                 mlog, benchVars>>

\* closeEvent(): self.plc_manager.disconnect() returned; event.accept()
CloseAccept ==
  /\ mpc = "close_disconnect"
  /\ Returned(Main)
  /\ op' = [op EXCEPT ![Main] = IdleOp]
  /\ mpc' = "closed"
  /\ UNCHANGED <<connected, master, lock, regs, workerVars, midx, camera_workers,
                 start_btn, stop_btn, closing, mlog, benchVars>>

\* the read/write test has not started
RwIdle == [step |-> "idle", a |-> 0, v |-> 0, wrote |-> FALSE, got |-> None]

\* ------------------------------------------------------ the whole pipeline
\* no worker exists, the GUI thread is idle, nothing is being encoded
PipelineIdle ==
  /\ pc = [w \in Workers |-> "none"]
  /\ is_running = [w \in Workers |-> FALSE]
  /\ is_camera_connected = [w \in Workers |-> FALSE]
  /\ status = [w \in Workers |-> "Offline"]
  /\ result = [w \in Workers |-> NoResult]
  /\ trace = [w \in Workers |-> <<>>]
  /\ error_occurred = [w \in Workers |-> "none"]
  /\ trigger_value = [w \in Workers |-> NotRead]
  /\ slept = [w \in Workers |-> "none"]
  /\ mpc = "idle"
  /\ midx = 1
  /\ camera_workers = <<>>
  /\ start_btn = TRUE
  /\ stop_btn = FALSE
  /\ closing = FALSE
  /\ mlog = "ready"

\* nothing is being encoded, detected or tested
BenchIdle ==
  /\ enc_in = 0
  /\ enc_out = None
  /\ det_mode = "mock"
  /\ det_img = Image(TRUE, FALSE, 0, 0, 0, 0, 0, 0, 0, "none", 0)
  /\ det_out = Outcome("none", NoResult)
  /\ det_prev = Outcome("none", NoResult)
  /\ rw = RwIdle
  /\ threads = <<>>

\* PlcManager.__init__: no master, not connected, lock free
LinkConstructed ==
  /\ connected = FALSE
  /\ master = FALSE
  /\ lock = NoThread
  /\ regs = [a \in Addrs |-> 0]
  /\ op = [t \in Threads |-> IdleOp]

\* MainWindow.__init__: PlcManager(), camera_workers = [], connect_plc()
Init ==
  /\ connected \in BOOLEAN
  /\ master = TRUE
  /\ lock = NoThread
  /\ regs = [a \in Addrs |-> 0]
  /\ op = [t \in Threads |-> IdleOp]
  /\ PipelineIdle
  /\ BenchIdle

WorkerStep(w) ==
  \/ RunBegin(w)
  \/ ConnectCamera(w)
  \/ LoopTest(w)
  \/ PollReturn(w)
  \/ ProcessingReturn(w)
  \/ Capture(w)
  \/ ErrorResultReturn(w)
  \/ ImageReadyReturn(w)
  \/ Detect(w)
  \/ WriteResultResume(w)

MainStep ==
  \/ StartSystem
  \/ StartCheck
  \/ StartWorker
  \/ StopSystem
  \/ StopWorker
  \/ WaitWorker
  \/ CloseAccept

Next ==
  \/ \E t \in Threads : PlcEnter(t) \/ PlcExecute(t)
  \/ \E w \in Workers : WorkerStep(w)
  \/ MainStep
  \/ \E s \in Stations : ControllerReset(s) \/ ControllerTrigger(s)

Spec == Init /\ [][Next]_vars

\* every thread that can run is scheduled again; a thread waiting for the
\* link lock gets it once it is free often enough; transport calls return
Fairness ==
  /\ \A w \in Workers : WF_vars(WorkerStep(w))
  /\ \A t \in Threads : SF_vars(PlcEnter(t)) /\ WF_vars(PlcExecute(t))
  /\ WF_vars(MainStep)

FairSpec == Init /\ [][Next]_vars /\ Fairness

\* ------------------------------------- the stations once they are started
\* start_system has run to its end on a connected link: every worker is
\* created and started, none of the threads has run yet
AllStarted ==
  /\ connected = TRUE
  /\ master = TRUE
  /\ lock = NoThread
  /\ regs = [a \in Addrs |-> 0]
  /\ op = [t \in Threads |-> IdleOp]
  /\ pc = [w \in Workers |-> "run"]
  /\ is_running = [w \in Workers |-> FALSE]
  /\ is_camera_connected = [w \in Workers |-> FALSE]
  /\ status = [w \in Workers |-> "Offline"]
  /\ result = [w \in Workers |-> NoResult]
  /\ trace = [w \in Workers |-> <<>>]
  /\ error_occurred = [w \in Workers |-> "none"]
  /\ trigger_value = [w \in Workers |-> NotRead]
  /\ slept = [w \in Workers |-> "none"]
  /\ mpc = "idle"
  /\ midx = Len(CAMERA_CONFIGS) + 1
  /\ camera_workers = CAMERA_CONFIGS
  /\ start_btn = FALSE
  /\ stop_btn = TRUE
  /\ closing = FALSE
  /\ mlog = "all workers started"

InitCycle == AllStarted /\ BenchIdle

\* worker.stop() is called while the worker's thread runs
StopRequest(w) ==
  /\ is_running[w]
  /\ is_running' = stop(w)
  /\ UNCHANGED <<linkVars, pc, is_camera_connected, status, result, trace,
                 error_occurred, trigger_value, slept, mainVars, benchVars>>

NextCycle ==
  \/ \E w \in Workers : WorkerStep(w) \/ PlcEnter(w) \/ PlcExecute(w) \/ StopRequest(w)
  \/ \E s \in Stations : ControllerReset(s) \/ ControllerTrigger(s)

SpecCycle == InitCycle /\ [][NextCycle]_vars

\* the worker threads are scheduled, get the link lock and have their
\* transport calls return
FairCycle ==
  /\ InitCycle
  /\ [][NextCycle]_vars
  /\ \A w \in Workers :
       WF_vars(WorkerStep(w)) /\ SF_vars(PlcEnter(w)) /\ WF_vars(PlcExecute(w))

\* --------------------------------- start and stop, worker object by object
\* Here camera_workers[i] is the station whose configuration the i-th
\* CameraWorker object was built with and threads[i] is that object's thread:
\* where run() has got to and the object's is_running flag.  Unlike in Spec,
\* a station can have more than one worker object.
\* most CameraWorker objects the list is let grow to
MaxThreads == 4

Thread(at, running) == [pc |-> at, is_running |-> running]

\* one turn of the for loop of start_system, or the end of the loop; the
\* loop body may raise (CameraWorker() reads keys of an unvalidated
\* configuration entry, start() needs a thread), which the except branch of
\* start_system logs: the buttons stay as they were, the workers started so
\* far stay in the list and keep running
StartThread ==
  /\ mpc = "start_loop"
  /\ IF midx <= Len(CAMERA_CONFIGS)
       THEN \E raises \in BOOLEAN :
              IF raises
                THEN /\ mlog' = "start failed"
                     /\ mpc' = "idle"
                     /\ UNCHANGED <<camera_workers, threads, midx, start_btn, stop_btn>>
                ELSE /\ Len(camera_workers) < MaxThreads
                     /\ camera_workers' = Append(camera_workers, CAMERA_CONFIGS[midx])
                     /\ threads' = Append(threads, Thread("run", FALSE))
                     /\ midx' = midx + 1
                     /\ UNCHANGED <<mpc, start_btn, stop_btn, mlog>>
       ELSE /\ start_btn' = FALSE
            /\ stop_btn' = TRUE
            /\ mlog' = "all workers started"
            /\ mpc' = "idle"
            /\ UNCHANGED <<camera_workers, threads, midx>>
  /\ UNCHANGED <<linkVars, workerVars, closing, encVars, detVars, rw>>

\* run() of the i-th worker object: is_running = True, then the camera
\* connection, then the poll loop until the flag is found cleared
ThreadStep(i) ==
  /\ i \in DOMAIN threads
  /\ \/ /\ threads[i].pc = "run"
        /\ threads' = [threads EXCEPT ![i] = Thread("connect", TRUE)]
     \/ /\ threads[i].pc = "connect"
        /\ \E ok \in BOOLEAN :
             threads' = [threads EXCEPT ![i].pc = IF ok THEN "loop" ELSE "terminated"]
     \/ /\ threads[i].pc = "loop"
        /\ ~threads[i].is_running
        /\ threads' = [threads EXCEPT ![i].pc = "terminated"]
  /\ UNCHANGED <<linkVars, workerVars, mainVars, encVars, detVars, rw>>

\* for worker in self.camera_workers: worker.stop() ...; after the loop the
\* list is cleared and the buttons are switched; closeEvent then disconnects
StopThread ==
  /\ mpc = "stop_loop"
  /\ IF midx <= Len(camera_workers)
       THEN /\ threads' = [threads EXCEPT ![midx].is_running = FALSE]
            /\ mpc' = "stop_wait"
            /\ UNCHANGED <<camera_workers, start_btn, stop_btn, op, mlog>>
       ELSE /\ camera_workers' = <<>>
            /\ threads' = <<>>
            /\ start_btn' = TRUE
            /\ stop_btn' = FALSE
            /\ mlog' = "system stopped"
            /\ IF closing
                 THEN /\ op' = [op EXCEPT ![Main] = CallOp("disconnect", 0, <<>>)]
                      /\ mpc' = "close_disconnect"
                 ELSE /\ mpc' = "idle"
                      /\ UNCHANGED op
  /\ UNCHANGED <<connected, master, lock, regs, workerVars, midx, closing,
                 encVars, detVars, rw>>

\* ... worker.wait(): returns once that worker's thread has finished
WaitThread ==
  /\ mpc = "stop_wait"
  /\ threads[midx].pc = "terminated"
  /\ midx' = midx + 1
  /\ mpc' = "stop_loop"
  /\ UNCHANGED <<linkVars, workerVars, camera_workers, start_btn, stop_btn, closing,
                 mlog, benchVars>>

NextStart ==
  \/ StartSystem
  \/ StartCheck
  \/ StartThread
  \/ StopSystem
  \/ StopThread
  \/ WaitThread
  \/ CloseAccept
  \/ PlcEnter(Main)
  \/ PlcExecute(Main)
  \/ \E i \in 1 .. MaxThreads : ThreadStep(i)

SpecStart == Init /\ [][NextStart]_vars

\* ------------------------------------------- the link under direct callers
\* all value lists of length 1 .. n over a set of values
RECURSIVE ListsUpTo(_, _)
ListsUpTo(V, n) ==
  IF n = 0 THEN {}
  ELSE {<<v>> : v \in V} \cup
       {Append(l, v) : l \in ListsUpTo(V, n - 1), v \in V}

Clients == Workers
LinkAddrs == {0, 1}
LinkVals == {PyInt(7), PyInt(32768)}

\* the calls two concurrent threads make on the shared PlcManager
LinkCalls ==
  {CallOp("connect", 0, <<>>), CallOp("disconnect", 0, <<>>),
   CallOp("is_connected", 0, <<>>)}
  \cup {CallOp("read", a, <<>>) : a \in LinkAddrs}
  \cup {CallOp("write", a, <<PyInt(7)>>) : a \in LinkAddrs}
  \cup {CallOp("write_multi", a, l) : a \in LinkAddrs, l \in ListsUpTo(LinkVals, MaxLen)}

BlockVals ==
  {PyInt(7), PyInt(INT16_MIN), PyInt(INT16_MAX), PyInt(INT16_MAX + 1),
   PyInt(INT16_MIN - 1), PyFloat(7)}

\* the calls of a single thread that exercises write_multiple_registers
BlockCalls ==
  {CallOp("connect", 0, <<>>), CallOp("disconnect", 0, <<>>)}
  \cup {CallOp("write_multi", 1, l) : l \in ListsUpTo(BlockVals, MaxLen)}

\* a thread that is in no PlcManager method calls one
ClientCall(t, calls) ==
  /\ op[t].phase \in {"idle", "ret"}
  /\ \E c \in calls : op' = [op EXCEPT ![t] = c]
  /\ UNCHANGED <<connected, master, lock, regs, workerVars, mainVars, benchVars>>

InitLink ==
  /\ LinkConstructed
  /\ PipelineIdle
  /\ BenchIdle

NextLink ==
  \E t \in Clients : ClientCall(t, LinkCalls) \/ PlcEnter(t) \/ PlcExecute(t)

SpecLink == InitLink /\ [][NextLink]_vars

NextBlock ==
  \/ ClientCall(1, BlockCalls)
  \/ PlcEnter(1)
  \/ PlcExecute(1)

SpecBlock == InitLink /\ [][NextBlock]_vars

\* ------------------------------------------- the fixed-point encoding alone
\* measurement values in hundredths: windows around 0 and around both ends
\* of the signed 16-bit range after scaling, and two values far outside
EncCentres == {-327680, 0, 327670}
EncInputs ==
  {c + d : c \in EncCentres, d \in (-EncSpan) .. EncSpan} \cup {-1000000, 1000000}

\* x_int = clamp_int16(int(result.x_offset * 10)) applied to the input
ApplyEncode ==
  /\ enc_out = None
  /\ enc_out' = Encode(enc_in)
  /\ UNCHANGED <<enc_in, linkVars, workerVars, mainVars, detVars, rw, threads>>

\* the next measurement arrives
NextMeasurement ==
  /\ enc_out # None
  /\ enc_in' \in EncInputs
  /\ enc_out' = None
  /\ UNCHANGED <<linkVars, workerVars, mainVars, detVars, rw, threads>>

InitEnc ==
  /\ LinkConstructed
  /\ PipelineIdle
  /\ BenchIdle

NextEnc == ApplyEncode \/ NextMeasurement

SpecEnc == InitEnc /\ [][NextEnc]_vars

\* ------------------------------------------- the link's read/write test
\* addresses and values of the test: write_holding_register(100, 123) and
\* the ends of the signed 16-bit range
RwAddrs == {0, 1, 100}
RwVals == {123, 0, INT16_MAX, -1, INT16_MIN}

\* plc = PlcManager(); plc.connect()
RwConnect ==
  /\ rw.step = "idle"
  /\ \E a \in RwAddrs, v \in RwVals :
       rw' = [RwIdle EXCEPT !.step = "connect", !.a = a, !.v = v]
  /\ op' = [op EXCEPT ![Main] = CallOp("connect", 0, <<>>)]
  /\ UNCHANGED <<connected, master, lock, regs, workerVars, mainVars, encVars, detVars,
                 threads>>

\* if plc.connect(): plc.write_holding_register(a, v)
RwWrite ==
  /\ rw.step = "connect"
  /\ Returned(Main)
  /\ IF op[Main].ret
       THEN /\ op' = [op EXCEPT ![Main] = CallOp("write", rw.a, <<PyInt(rw.v)>>)]
            /\ rw' = [rw EXCEPT !.step = "write"]
       ELSE /\ op' = [op EXCEPT ![Main] = IdleOp]
            /\ rw' = RwIdle
  /\ UNCHANGED <<connected, master, lock, regs, workerVars, mainVars, encVars, detVars,
                 threads>>

\* value = plc.read_holding_register(a)
RwRead ==
  /\ rw.step = "write"
  /\ Returned(Main)
  /\ rw' = [rw EXCEPT !.step = "read", !.wrote = op[Main].ret]
  /\ op' = [op EXCEPT ![Main] = CallOp("read", rw.a, <<>>)]
  /\ UNCHANGED <<connected, master, lock, regs, workerVars, mainVars, encVars, detVars,
                 threads>>

\* if value == v: ...; plc.disconnect()
RwCheck ==
  /\ rw.step = "read"
  /\ Returned(Main)
  /\ rw' = [rw EXCEPT !.step = "done", !.got = op[Main].ret]
  /\ op' = [op EXCEPT ![Main] = CallOp("disconnect", 0, <<>>)]
  /\ UNCHANGED <<connected, master, lock, regs, workerVars, mainVars, encVars, detVars,
                 threads>>

\* the test is run again
RwAgain ==
  /\ rw.step = "done"
  /\ Returned(Main)
  /\ rw' = RwIdle
  /\ op' = [op EXCEPT ![Main] = IdleOp]
  /\ UNCHANGED <<connected, master, lock, regs, workerVars, mainVars, encVars, detVars,
                 threads>>

InitRw == LinkConstructed /\ PipelineIdle /\ BenchIdle

NextRw ==
  \/ RwConnect
  \/ RwWrite
  \/ RwRead
  \/ RwCheck
  \/ RwAgain
  \/ PlcEnter(Main)
  \/ PlcExecute(Main)

SpecRw == InitRw /\ [][NextRw]_vars

\* ------------------------------------------------------ the detector alone
\* rotations of the best oriented box, in units of pi/36 rad: the raw output
\* range of the model's angle head is [-pi/4, 3pi/4)
ObbRotations == {-9, 0, 6, 18, 19, 26}

\* raw angles in hundredths of a degree: fitEllipse gives 0 .. 180,
\* minAreaRect gives [-90, 0) or (0, 90] depending on the library version
EllipseAngles == {0, 3000, 9000, 9050, 13500, 18000}
RectAngles == {-9000, -4500, 4500, 9000}

Fits ==
  {<<"ellipse", a>> : a \in EllipseAngles} \cup {<<"rect", a>> : a \in RectAngles}
    \cup {<<"none", 0>>}

\* the images the detector is tried on: one the shape of which cannot be
\* read, one the model raises on, one without any box, and for the best box
\* every class id and confidence with every rotation and every contour fit
Images ==
  { Image(FALSE, FALSE, 0, 0, 0, 0, 0, 0, 0, "none", 0),
    Image(TRUE, TRUE, 0, 0, 0, 0, 0, 0, 0, "none", 0),
    Image(TRUE, FALSE, 0, 0, 0, 0, 0, 0, 0, "none", 0) }
  \cup { Image(TRUE, FALSE, 1, c, conf, 125, -73, 250, rot, "none", 0) :
           c \in {0, 1, 2}, conf \in {40, 90}, rot \in ObbRotations }
  \cup { Image(TRUE, FALSE, 1, c, conf, 125, -73, 250, 0, f[1], f[2]) :
           c \in {0, 1, 2}, conf \in {40, 90}, f \in Fits }

\* what random gives _mock_detect
MockDraws ==
  { MockDraw(UNKNOWN, 0, 0, 0, 0, 30),
    MockDraw(UNKNOWN, 0, 0, 0, 0, 60),
    MockDraw(RESERVED, 0, 0, 0, 0, 70),
    MockDraw(CUTTABLE, 100, -80, -4500, 2000, 85),
    MockDraw(CUTTABLE, -100, 80, 4500, 3500, 99) }

\* result, display_image = self.detector.detect_and_draw(image), on the same
\* image up to two times
DetectAndDraw ==
  /\ det_prev.state = "none"
  /\ \E d \in MockDraws :
       det_out' = detect_and_draw(det_mode, det_img, d)
  /\ det_prev' = det_out
  /\ UNCHANGED <<det_mode, det_img, enc_in, enc_out, rw, threads, linkVars,
                 workerVars, mainVars>>

\* the next image is handed to the same detector
NextImage ==
  /\ det_out.state # "none"
  /\ det_img' \in Images
  /\ det_out' = Outcome("none", NoResult)
  /\ det_prev' = Outcome("none", NoResult)
  /\ UNCHANGED <<det_mode, enc_in, enc_out, rw, threads, linkVars,
                 workerVars, mainVars>>

\* VisionDetector(): the detector is in one of its three configurations
InitDet ==
  /\ LinkConstructed
  /\ PipelineIdle
  /\ enc_in = 0
  /\ enc_out = None
  /\ det_mode \in DetectorModes
  /\ det_img = Image(TRUE, FALSE, 0, 0, 0, 0, 0, 0, 0, "none", 0)
  /\ det_out = Outcome("none", NoResult)
  /\ det_prev = Outcome("none", NoResult)
  /\ rw = RwIdle
  /\ threads = <<>>

NextDet == DetectAndDraw \/ NextImage

SpecDet == InitDet /\ [][NextDet]_vars

\* ================================================================= claims
\* the register writes and captures of a trace, detector events left out
RECURSIVE IoOf(_)
IoOf(tr) ==
  IF tr = <<>> THEN <<>>
  ELSE IF Head(tr).e = "DET" THEN IoOf(Tail(tr))
       ELSE <<Head(tr)>> \o IoOf(Tail(tr))

\* no register operation and no capture of the trace failed
NoFault(tr) == \A i \in 1 .. Len(tr) : tr[i].e = "DET" \/ tr[i].ok

\* the cycle of worker w is over: it is back at the loop test with its trace
CycleOver(w) == pc[w] = "loop" /\ trace[w] # <<>>

\* the order of a fault-free cycle, on the writes and captures io of station w
FaultFreeOrder(w, io) ==
  /\ Len(io) <= 5
  /\ Len(io) >= 1 => io[1] = Ev("W", Registers(w).trigger, <<PROCESSING>>, TRUE)
  /\ Len(io) >= 2 => io[2] = Ev("CAP", 0, <<>>, TRUE)
  /\ Len(io) >= 3 => io[3] = Ev("W", Registers(w).trigger, <<IMAGE_READY>>, TRUE)
  /\ Len(io) >= 4 => /\ io[4].e = "W"
                     /\ io[4].a = Registers(w).class
                     /\ io[4].v \in {<<UNKNOWN>>, <<CUTTABLE>>, <<RESERVED>>}
  /\ Len(io) >= 5 => /\ io[5].e = "WM"
                     /\ io[5].a = Registers(w).x_offset
                     /\ Len(io[5].v) = 6
                     /\ io[4].v = <<CUTTABLE>>

\* C1: in a cycle started by reading Ready in which no register operation
\* and no capture fails, the station writes Processing(127) to its trigger,
\* captures, writes ImageReady(128) to its trigger, writes the class, and
\* only after a Cuttable class one 6-value block; it issues nothing else,
\* and the cycle does not end before the class write
C1_CycleOrder ==
  \A w \in Workers :
    NoFault(trace[w]) =>
      /\ FaultFreeOrder(w, IoOf(trace[w]))
      /\ CycleOver(w) => Len(IoOf(trace[w])) >= 4

C1_Witness ==
  \E w \in Workers :
    /\ CycleOver(w)
    /\ NoFault(trace[w])
    /\ Len(IoOf(trace[w])) = 4
    /\ IoOf(trace[w])[4].v = <<CUTTABLE>>

\* C2: at most one thread is inside a transport request at any instant
C2_OneTransportRequest ==
  Cardinality({t \in Threads : op[t].phase = "tx"}) <= 1

C2_Witness ==
  \E t, u \in Clients :
    /\ t # u
    /\ op[t].phase = "tx"
    /\ op[t].kind = "write_multi"
    /\ op[u].phase = "call"
    /\ op[u].kind = "read"

\* C3: a write_multiple_registers call whose list holds, at any position, a
\* value outside -32768..32767 or a non-integer never reaches the transport,
\* returns False and leaves every register as it was
C3_BlockAllOrNothing ==
  [][\A t \in Threads :
       (op[t].kind = "write_multi" /\ ~(\A i \in 1 .. Len(op[t].vals) : ValueInRange(op[t].vals[i]))
          /\ op[t].phase = "call" /\ op'[t] # op[t])
       => (op'[t].phase = "ret" /\ op'[t].ret = FALSE /\ regs' = regs)]_vars

C3_Witness ==
  /\ connected
  /\ op[1].kind = "write_multi"
  /\ Len(op[1].vals) = 2
  /\ ValueInRange(op[1].vals[1])
  /\ ~ValueInRange(op[1].vals[2])
  /\ op[1].phase = "ret"
  /\ op[1].ret = FALSE

\* C4: after a capture that returned no image the station issues exactly one
\* more call, the write of Unidentified(1) to its class register: no
\* ImageReady write, no detection, no block write; then it polls again
C4_CaptureFailure ==
  \A w \in Workers :
    (Len(trace[w]) >= 2 /\ trace[w][2].e = "CAP" /\ ~trace[w][2].ok) =>
      /\ Len(trace[w]) <= 3
      /\ pc[w] \in {"w_error_capture", "loop"}
      /\ pc[w] = "loop" <=> Len(trace[w]) = 3
      /\ pc[w] = "w_error_capture" =>
           /\ op[w].kind = "write"
           /\ op[w].addr = Registers(w).class
           /\ op[w].vals = <<PyInt(UNKNOWN)>>
      /\ Len(trace[w]) = 3 =>
           /\ trace[w][3].e = "W"
           /\ trace[w][3].a = Registers(w).class
           /\ trace[w][3].v = <<UNKNOWN>>

C4_Witness ==
  \E w \in Workers :
    /\ pc[w] = "loop"
    /\ Len(trace[w]) = 3
    /\ trace[w][2] = Ev("CAP", 0, <<>>, FALSE)
    /\ trace[w][3] = Ev("W", Registers(w).class, <<UNKNOWN>>, TRUE)

\* C5: once the class write of a Cuttable result has succeeded, the station
\* issues one write_multiple_registers at its x_offset register with the six
\* values [x*10, y*10, r*10, h*10, head, l*10] before the cycle is over
C5_BlockAfterCuttable ==
  \A w \in Workers :
    \A i \in 1 .. Len(trace[w]) :
      (CycleOver(w) /\ trace[w][i] = Ev("W", Registers(w).class, <<CUTTABLE>>, TRUE)) =>
        /\ Len(trace[w]) = i + 1
        /\ trace[w][i + 1].e = "WM"
        /\ trace[w][i + 1].a = Registers(w).x_offset
        /\ Len(trace[w][i + 1].v) = 6

\* C6: a result whose class is not Cuttable has its class written to the
\* class register, and nothing else is written in that cycle: no block write
C6_NoBlockUnlessCuttable ==
  \A w \in Workers :
    \A i \in 1 .. Len(trace[w]) :
      (trace[w][i].e = "DET" /\ trace[w][i].ok /\ trace[w][i].v # <<CUTTABLE>>) =>
        /\ Len(trace[w]) <= i + 1
        /\ Len(trace[w]) = i => /\ pc[w] = "w_class"
                                /\ op[w].kind = "write"
                                /\ op[w].addr = Registers(w).class
                                /\ <<op[w].vals[1].v>> = trace[w][i].v
        /\ Len(trace[w]) = i + 1 => /\ pc[w] = "loop"
                                    /\ trace[w][i + 1].e = "W"
                                    /\ trace[w][i + 1].a = Registers(w).class
                                    /\ trace[w][i + 1].v = trace[w][i].v

C6_Witness ==
  \E w \in Workers :
    /\ CycleOver(w)
    /\ Len(trace[w]) = 5
    /\ trace[w][4] = Ev("DET", 0, <<RESERVED>>, TRUE)
    /\ trace[w][5] = Ev("W", Registers(w).class, <<RESERVED>>, TRUE)

Abs(n) == IF n >= 0 THEN n ELSE -n

\* C7: a measurement v with |v| <= 3276.7 is encoded to a register value
\* that, divided by 10, lies within 0.1 of v (all in hundredths here)
C7_RoundTrip ==
  (enc_out # None /\ Abs(enc_in) <= 327670) => Abs(enc_out * 10 - enc_in) <= 10

C7_Witness ==
  /\ enc_in = 327665
  /\ enc_out = 32766

\* C8 as stated: beyond +/-3276.7 the register value is exactly +32767 for
\* positive and exactly -32767 for negative measurements
C8_ClampSymmetric ==
  enc_out # None =>
    /\ enc_in > 327670 => enc_out = INT16_MAX
    /\ enc_in < -327670 => enc_out = -INT16_MAX

\* C8 amended: above 3276.7 the register value is exactly 32767 (3277.0
\* gives 32767); at or below -3276.8 it is exactly -32768; strictly between
\* -3276.8 and -3276.7 it is -32767 (truncation toward zero, then the clamp)
C8_ClampInt16 ==
  enc_out # None =>
    /\ enc_in > 327670 => enc_out = INT16_MAX
    /\ enc_in <= -327680 => enc_out = INT16_MIN
    /\ (enc_in > -327680 /\ enc_in < -327670) => enc_out = -INT16_MAX

C8_Witness ==
  /\ enc_in = -327690
  /\ enc_out = INT16_MIN

\* C9: when start_system finds the link not connected it reports that and
\* returns: no worker is created or started and no PlcManager call is made;
\* and no worker is ever alive while the link is not connected
C9_NoStartWhenDisconnected ==
  [][/\ (mpc = "start_check" /\ mpc' # mpc /\ ~connected) =>
          /\ mpc' = "idle"
          /\ mlog' = "PLC not connected"
          /\ camera_workers' = camera_workers
          /\ pc' = pc
          /\ \A t \in Threads : op'[t].phase \notin {"call", "tx"}
     /\ ~connected' => \A w \in Workers : pc'[w] \in {"none", "terminated"}]_vars

C9_Witness ==
  /\ mpc = "idle"
  /\ mlog = "PLC not connected"
  /\ ~connected
  /\ camera_workers = <<>>
  /\ \A w \in Workers : pc[w] = "none"

\* C10: once stop_system has called stop() on a worker and waits for it,
\* that worker terminates, so that the wait returns
C10_StopJoins ==
  \A w \in Workers :
    (mpc = "stop_wait" /\ camera_workers[midx] = w) ~> (pc[w] = "terminated")

\* the positions of a cycle after Ready was read: Processing being written,
\* capturing, ImageReady being written, computing, writing back
WorkingStates ==
  {"w_processing", "capture", "w_error_capture", "w_imageready", "detect",
   "w_error_exception", "w_class", "w_coords"}

\* C11: from every working state of a cycle, whatever register write,
\* capture or detection fails, the station comes back to the top of its poll
\* loop; a cycle step never terminates the worker (only the loop test with
\* the stop flag set, or a failed camera connection, does)
C11_FailForward ==
  /\ [][\A w \in Workers :
          (pc[w] \in WorkingStates /\ pc'[w] # pc[w]) =>
            pc'[w] \in WorkingStates \cup {"loop"}]_vars
  /\ \A w \in Workers : (pc[w] \in WorkingStates) ~> (pc[w] = "loop")

C11_Witness ==
  \E w \in Workers :
    /\ pc[w] = "loop"
    /\ is_running[w]
    /\ Len(trace[w]) = 5
    /\ trace[w][4] = Ev("DET", 0, <<>>, FALSE)
    /\ trace[w][5] = Ev("W", Registers(w).class, <<UNKNOWN>>, FALSE)

\* C12: a stop request that arrives while a station is in a cycle does not
\* cut the cycle short: a cycle without faults still runs through the class
\* write in the usual order with the stop flag set; the flag is read at the
\* loop test only, where a stopped worker terminates without issuing another
\* call, and a trigger read is issued only by a loop test that found the
\* flag set to run
C12_StopAfterCycle ==
  /\ [](\A w \in Workers :
          (~is_running[w] /\ NoFault(trace[w])) =>
            /\ FaultFreeOrder(w, IoOf(trace[w]))
            /\ CycleOver(w) => Len(IoOf(trace[w])) >= 4)
  /\ [][\A w \in Workers :
          /\ (pc[w] \in WorkingStates /\ pc'[w] # pc[w]) => pc'[w] # "terminated"
          /\ (pc[w] = "loop" /\ ~is_running[w] /\ pc'[w] # pc[w]) =>
               (pc'[w] = "terminated" /\ op'[w] = op[w])
          /\ (op'[w] # op[w] /\ op'[w].kind = "read" /\ op'[w].phase = "call") =>
               (pc[w] = "loop" /\ is_running[w])]_vars

C12_Witness ==
  \E w \in Workers :
    /\ mpc = "stop_wait"
    /\ camera_workers[midx] = w
    /\ ~is_running[w]
    /\ CycleOver(w)
    /\ NoFault(trace[w])
    /\ Len(IoOf(trace[w])) = 4

\* the registers a station's writes may touch: its trigger, its class and the
\* six registers from its x_offset on
OwnBlock(s) ==
  {Registers(s).trigger, Registers(s).class}
    \cup (Registers(s).x_offset .. Registers(s).x_offset + 5)

\* C13: a step of station a (its worker thread or its call on the link), and
\* so every fault of a and its handling, leaves station b as it was: b's
\* position, is_running, capture source, status, result, pending call and
\* registers; and a call of a that returns, failed or not, leaves the link
\* lock free for b and the link connected
C13_FaultsStayLocal ==
  [][\A a \in Workers :
       ((pc'[a] # pc[a] \/ op'[a] # op[a]) /\ mpc' = mpc /\ midx' = midx) =>
         /\ \A b \in Workers \ {a} :
              /\ pc'[b] = pc[b]
              /\ is_running'[b] = is_running[b]
              /\ is_camera_connected'[b] = is_camera_connected[b]
              /\ status'[b] = status[b]
              /\ result'[b] = result[b]
              /\ trace'[b] = trace[b]
              /\ error_occurred'[b] = error_occurred[b]
              /\ op'[b] = op[b]
              /\ \A r \in OwnBlock(b) \cap Addrs : regs'[r] = regs[r]
         /\ (op[a].phase = "tx" /\ op'[a].phase = "ret") => lock' = NoThread
         /\ connected' = connected]_vars

C13_Witness ==
  \E a, b \in Workers :
    /\ a # b
    /\ pc[a] = "loop"
    /\ Len(trace[a]) = 3
    /\ trace[a][2] = Ev("CAP", 0, <<>>, FALSE)
    /\ trace[a][3] = Ev("W", Registers(a).class, <<UNKNOWN>>, FALSE)
    /\ pc[b] = "poll"
    /\ is_running[b]
    /\ is_camera_connected[b]

\* C14: a station whose capture source cannot be connected reports the
\* error and terminates without ever having called the link; start_system
\* does not wait for it: its loop can always take its next step and ends
\* with every configured station created and started; and a started worker
\* can always go on to its own connection attempt, which takes it to the
\* poll loop when it succeeds
C14_ConnectFailureIsLocal ==
  /\ [](\A w \in Workers :
          error_occurred[w] = "camera connect failed" =>
            /\ pc[w] = "terminated"
            /\ ~is_camera_connected[w]
            /\ op[w] = IdleOp
            /\ trace[w] = <<>>)
  /\ [](mpc = "start_loop" => ENABLED StartWorker)
  /\ [](\A w \in Workers : pc[w] \in {"run", "connect"} => ENABLED WorkerStep(w))
  /\ [][/\ \A w \in Workers :
             (pc[w] = "connect" /\ pc'[w] # pc[w]) =>
               IF is_camera_connected'[w]
                 THEN pc'[w] = "loop" /\ status'[w] = "Standby"
                 ELSE pc'[w] = "terminated" /\
                      error_occurred'[w] = "camera connect failed"
        /\ (mpc = "start_loop" /\ mpc' = "idle") =>
             /\ camera_workers' = CAMERA_CONFIGS
             /\ \A w \in Workers : pc'[w] # "none"]_vars

C14_Witness ==
  \E a, b \in Workers :
    /\ a # b
    /\ error_occurred[a] = "camera connect failed"
    /\ pc[a] = "terminated"
    /\ mlog = "all workers started"
    /\ camera_workers = CAMERA_CONFIGS
    /\ pc[b] = "poll"
    /\ op[b].phase = "tx"

\* the addresses a call on the link writes
WrittenBy(o) ==
  CASE o.kind = "write" -> {o.addr}
    [] o.kind = "write_multi" -> o.addr .. (o.addr + Len(o.vals) - 1)
    [] OTHER -> {}

\* the blocks of the eight stations of the default configuration
OwnBlocks == [s \in 1 .. 8 |-> OwnBlock(s)]

BlocksDisjoint == \A s, t \in 1 .. 8 : s # t => OwnBlocks[s] \cap OwnBlocks[t] = {}

\* C15: every write a station issues goes to its own registers (its trigger,
\* its class, or the block from its x_offset on), every read to its own
\* trigger, and the register blocks of the eight configured stations are
\* pairwise disjoint: no station writes a register of another station
C15_OwnRegistersOnly ==
  /\ \A w \in Workers :
       /\ WrittenBy(op[w]) \subseteq OwnBlocks[w]
       /\ op[w].kind = "read" => op[w].addr = Registers(w).trigger
       /\ \A s \in (1 .. 8) \ {w} : WrittenBy(op[w]) \cap OwnBlocks[s] = {}
  /\ BlocksDisjoint

C15_Witness ==
  /\ op[1].kind = "write"
  /\ op[1].phase = "tx"
  /\ op[1].addr = Registers(1).trigger
  /\ op[2].kind = "write"
  /\ op[2].phase = "call"
  /\ op[2].addr = Registers(2).class

\* the detector under test returned a result for det_img
DetReturned == det_out.state = "returned"

\* C16: a DetectionResult with classification Unidentified(1) has x_offset,
\* y_offset, r_angle and height 0 and neither box_coords nor center_point
C16_UnidentifiedIsEmpty ==
  (DetReturned /\ det_out.result.classification = UNKNOWN) =>
    /\ det_out.result.x_offset = 0
    /\ det_out.result.y_offset = 0
    /\ det_out.result.r_angle = 0
    /\ det_out.result.height = 0
    /\ ~det_out.result.has_box

\* the images with the raw angle of the box or of the fit turned by 180 degrees
Turned(img) == {[img EXCEPT !.rot = @ + 36], [img EXCEPT !.angle = @ + 18000]}

\* C17: the r_angle of every DetectionResult lies in (-90, 90] degrees, and
\* an image whose raw angle is turned by 180 degrees (where the fit can
\* produce both angles) gives the same r_angle
C17_AngleNormalised ==
  DetReturned =>
    /\ det_out.result.r_angle > -9000
    /\ det_out.result.r_angle <= 9000
    /\ det_mode # "mock" =>
         \A j \in Turned(det_img) \cap Images :
           detect_betel_nut(det_mode, j, MockDraw(UNKNOWN, 0, 0, 0, 0, 0)).r_angle
             = det_out.result.r_angle

\* C18: detection never raises: for every image, malformed ones included, a
\* DetectionResult comes back, and when the detection failed internally it is
\* Unidentified(1) with confidence 0.0
C18_DetectNeverRaises ==
  /\ det_out.state # "raised"
  /\ (DetReturned /\ (det_img.raises \/ ~det_img.wellformed)) =>
       det_out.result = Unidentified

\* C19: two invocations of the same detector on the same image return
\* DetectionResults equal in every field
C19_Deterministic ==
  (det_prev.state # "none") => det_out = det_prev

\* C20: on a connected link a successful write_holding_register(a, v)
\* followed by a successful read_holding_register(a), nobody else writing a
\* in between, returns v, for every v of the signed 16-bit range
C20_WriteThenRead ==
  (rw.step = "done" /\ rw.wrote = TRUE /\ rw.got # None) => rw.got = rw.v

\* a running worker at the top of its loop only goes on to read its trigger
ResumesPolling(w) ==
  (pc[w] = "loop" /\ is_running[w] /\ pc'[w] # pc[w]) =>
    (pc'[w] = "poll" /\ op'[w] = CallOp("read", Registers(w).trigger, <<>>))

\* C21: when the write of Processing(127) fails after Ready was read, the
\* cycle is over: no capture and no further register write is issued in it,
\* and the station goes back to the top of its loop, from where it polls
C21_ProcessingWriteFailure ==
  /\ [](\A w \in Workers :
          (trace[w] # <<>> /\ ~trace[w][1].ok) =>
            /\ trace[w] = <<Ev("W", Registers(w).trigger, <<PROCESSING>>, FALSE)>>
            /\ trigger_value[w] = READY
            /\ pc[w] = "loop"
            /\ op[w] = IdleOp
            /\ slept[w] = "poll")
  /\ [][\A w \in Workers :
          /\ (pc[w] = "w_processing" /\ Returned(w) /\ ~op[w].ret /\ pc'[w] # pc[w]) =>
               (pc'[w] = "loop" /\ op'[w] = IdleOp /\ regs' = regs)
          /\ ResumesPolling(w)]_vars

C21_Witness ==
  \E w \in Workers :
    /\ pc[w] = "loop"
    /\ is_running[w]
    /\ connected
    /\ trace[w] = <<Ev("W", Registers(w).trigger, <<PROCESSING>>, FALSE)>>

\* C22: when the write of ImageReady(128) fails after a capture that
\* succeeded, the cycle is over: the detector is not invoked, neither the
\* class nor a block is written, and the station goes back to the top of its
\* loop, from where it polls
C22_ImageReadyWriteFailure ==
  /\ [](\A w \in Workers :
          (Len(trace[w]) >= 3 /\ trace[w][3].v = <<IMAGE_READY>> /\ ~trace[w][3].ok) =>
            /\ trace[w] = << Ev("W", Registers(w).trigger, <<PROCESSING>>, TRUE),
                             Ev("CAP", 0, <<>>, TRUE),
                             Ev("W", Registers(w).trigger, <<IMAGE_READY>>, FALSE) >>
            /\ result[w] = NoResult
            /\ pc[w] = "loop"
            /\ op[w] = IdleOp
            /\ slept[w] = "poll")
  /\ [][\A w \in Workers :
          /\ (pc[w] = "w_imageready" /\ Returned(w) /\ ~op[w].ret /\ pc'[w] # pc[w]) =>
               (pc'[w] = "loop" /\ op'[w] = IdleOp /\ regs' = regs /\ result' = result)
          /\ ResumesPolling(w)]_vars

C22_Witness ==
  \E w \in Workers :
    /\ pc[w] = "loop"
    /\ is_running[w]
    /\ connected
    /\ Len(trace[w]) = 3
    /\ trace[w][2] = Ev("CAP", 0, <<>>, TRUE)
    /\ trace[w][3] = Ev("W", Registers(w).trigger, <<IMAGE_READY>>, FALSE)

\* C23: a cycle starts only when the read of the station's own trigger
\* returned exactly Ready(10); after any other outcome of the read (another
\* integer, 0, 127 and 128 among them, or a failed read) the station issues
\* no write and no capture before it reads the trigger again
C23_OnlyReadyStartsCycle ==
  /\ [](\A w \in Workers :
          /\ pc[w] = "poll" => (op[w].kind = "read" /\ op[w].addr = Registers(w).trigger)
          /\ (pc[w] \in WorkingStates \/ trace[w] # <<>>) => trigger_value[w] = READY
          /\ (pc[w] = "loop" /\ trigger_value[w] # READY) =>
               (trace[w] = <<>> /\ op[w] = IdleOp))
  /\ [][\A w \in Workers :
          /\ (pc[w] = "poll" /\ pc'[w] # pc[w]) =>
               IF op[w].ret = READY
                 THEN pc'[w] = "w_processing"
                 ELSE /\ pc'[w] = "loop"
                      /\ op'[w] = IdleOp
                      /\ trace'[w] = <<>>
                      /\ status'[w] = status[w]
                      /\ regs' = regs
          /\ ResumesPolling(w)]_vars

C23_Witness ==
  \E a, b \in Workers :
    /\ pc[a] = "loop"
    /\ trigger_value[a] = None
    /\ pc[b] = "loop"
    /\ trigger_value[b] = IMAGE_READY
    /\ trace[a] = <<>>
    /\ trace[b] = <<>>

\* C24: when a read of the trigger fails, the station stays where it is (no
\* cycle is started), the failure is logged, and the next read is issued
\* only after the 1-second fault backoff, not after the poll interval
C24_ReadFailureBackoff ==
  \A w \in Workers :
    /\ (pc[w] = "poll" /\ Returned(w) /\ op[w].ret = None) => op[w].log # "none"
    /\ (pc[w] = "loop" /\ trigger_value[w] = None) =>
         /\ trace[w] = <<>>
         /\ op[w] = IdleOp
         /\ slept[w] = "backoff"

\* the register operations of the link
RegisterCalls == {"read", "write", "write_multi"}

\* C25: while the link is not connected (never connected, connect failed, or
\* disconnected), read_holding_register returns None and
\* write_single_register and write_multiple_registers return False, and no
\* transport operation is attempted: the call is over in its first step, the
\* registers are as they were, and a register operation is with the
\* transport only on a connected link
C25_NotConnectedNoTransport ==
  /\ [](\A t \in Threads :
          (op[t].phase = "tx" /\ op[t].kind \in RegisterCalls) => connected)
  /\ [][\A t \in Threads :
          (op[t].phase = "call" /\ op[t].kind \in RegisterCalls /\ ~connected
             /\ op'[t] # op[t]) =>
            /\ op'[t].phase = "ret"
            /\ op'[t].ret = (IF op[t].kind = "read" THEN None ELSE FALSE)
            /\ op'[t].log = "not connected"
            /\ regs' = regs
            /\ lock' = lock
            /\ connected' = connected]_vars

C25_Witness ==
  \E t, u \in Clients :
    /\ t # u
    /\ master
    /\ ~connected
    /\ op[t].kind = "write_multi"
    /\ op[t].phase = "ret"
    /\ op[t].ret = FALSE
    /\ op[t].log = "not connected"
    /\ op[u].kind = "disconnect"
    /\ op[u].phase = "ret"

\* C26: the station writes only Processing(127) and ImageReady(128) to its
\* trigger register, and only in a cycle started by Ready, before the class
\* write; it never resets the trigger: the register changes only by these
\* two writes or by the controller, so after a capture failure it holds 127,
\* and after a cycle that wrote ImageReady it holds 128 until the controller
\* clears it
C26_TriggerWrites ==
  /\ [](\A w \in Workers :
          /\ Registers(w).trigger \in WrittenBy(op[w]) =>
               /\ op[w].kind = "write"
               /\ op[w].vals \in {<<PyInt(PROCESSING)>>, <<PyInt(IMAGE_READY)>>}
               /\ pc[w] \in {"w_processing", "w_imageready"}
               /\ trigger_value[w] = READY
          /\ (Len(trace[w]) >= 2 /\ trace[w][1].ok /\ ~trace[w][2].ok) =>
               regs[Registers(w).trigger] = PROCESSING
          /\ (Len(trace[w]) >= 3 /\ trace[w][3] = Ev("W", Registers(w).trigger, <<IMAGE_READY>>, TRUE)) =>
               regs[Registers(w).trigger] \in {IMAGE_READY, 0, READY})
  /\ [][\A s \in Stations :
          regs'[Registers(s).trigger] # regs[Registers(s).trigger] =>
            \/ /\ op[s].phase = "tx"
               /\ op'[s].phase = "ret"
               /\ op'[s].ret = TRUE
               /\ regs'[Registers(s).trigger] \in {PROCESSING, IMAGE_READY}
               /\ regs'[Registers(s).trigger] = op[s].vals[1].v
            \/ /\ op' = op
               /\ pc' = pc
               /\ \/ regs[Registers(s).trigger] = IMAGE_READY /\ regs'[Registers(s).trigger] = 0
                  \/ regs[Registers(s).trigger] = 0 /\ regs'[Registers(s).trigger] = READY]_vars

C26_Witness ==
  \E w \in Workers :
    /\ pc[w] = "loop"
    /\ Len(trace[w]) = 5
    /\ trace[w][3] = Ev("W", Registers(w).trigger, <<IMAGE_READY>>, TRUE)
    /\ trace[w][5] = Ev("W", Registers(w).class, <<CUTTABLE>>, TRUE)
    /\ regs[Registers(w).trigger] = IMAGE_READY

\* C27: when a stop request has completed (every worker signalled and
\* joined, stop_system returned), the link has been released:
\* is_connected() is false
C27_StopReleasesLink ==
  (mpc = "idle" /\ mlog = "system stopped" /\ camera_workers = <<>>) => ~connected

\* no thread of worker w runs
NotRunning(w) == pc[w] \in {"none", "terminated"}

\* C28: the link is never disconnected while a started worker still runs:
\* in every sequence of start, stop and close, disconnect() is called by the
\* GUI thread only, with the worker list cleared and every worker
\* terminated, and the list is cleared only once all of its workers have been
\* stopped and have terminated
C28_DisconnectAfterWorkers ==
  /\ [](\A t \in Threads :
          op[t].kind = "disconnect" =>
            /\ t = Main
            /\ camera_workers = <<>>
            /\ \A w \in Workers : NotRunning(w))
  /\ [][/\ (connected /\ ~connected') =>
             /\ op[Main].kind = "disconnect"
             /\ \A w \in Workers : NotRunning(w)
        /\ (camera_workers # <<>> /\ camera_workers' = <<>>) =>
             \A i \in 1 .. Len(camera_workers) : NotRunning(camera_workers[i])]_vars

C28_Witness ==
  /\ op[Main].kind = "disconnect"
  /\ op[Main].phase = "tx"
  /\ connected
  /\ closing
  /\ mlog = "system stopped"
  /\ \A w \in Workers : pc[w] = "terminated" /\ ~is_running[w]

\* the roles of a station's register block, in the order of the block
RegisterRoles ==
  << "trigger", "class", "x_offset", "y_offset", "r_angle", "height",
     "head_direction", "length" >>

\* the map of station s has the eight roles at consecutive addresses
RegisterMapComplete(s) ==
  /\ DOMAIN Registers(s) = {RegisterRoles[i] : i \in 1 .. 8}
  /\ \A i \in 1 .. 7 :
       Registers(s)[RegisterRoles[i + 1]] = Registers(s)[RegisterRoles[i]] + 1
  /\ Registers(s).x_offset + 5 = Registers(s)[RegisterRoles[8]]

CompleteMaps == {s \in 1 .. 8 : RegisterMapComplete(s)}

\* C29: the register map of each of the eight configured stations, as the
\* workers are created with it, defines all eight roles at consecutive
\* addresses in the order trigger, class, x_offset, y_offset, r_angle,
\* height, head_direction, length, so that six values written from x_offset
\* land on x_offset .. length
C29_RegisterMapComplete ==
  camera_workers # <<>> => CompleteMaps = 1 .. 8

\* C30: the detector never returns Reserved(3): on every detection path the
\* classification of the DetectionResult is Unidentified(1) or Cuttable(2)
C30_NeverReserved ==
  DetReturned => det_out.result.classification \in {UNKNOWN, CUTTABLE}

\* C31: when the coordinate block write of a cycle fails or is rejected, the
\* class written before it stands (no further class write follows), an error
\* event is emitted for the failure, and the station returns to Standby.
\* The formula holds, but no cycle of the pipeline gets as far as the block
\* write (see C5), so its case is not reached
C31_BlockWriteFailure ==
  \A w \in Workers :
    \A i \in 1 .. Len(trace[w]) :
      (trace[w][i].e = "WM" /\ ~trace[w][i].ok) =>
        /\ i = Len(trace[w])
        /\ trace[w][i - 1] = Ev("W", Registers(w).class, <<CUTTABLE>>, TRUE)
        /\ error_occurred[w] = "coordinate write failed"
        /\ status[w] = "Standby"
        /\ pc[w] = "loop"

\* a register operation that has returned its failure value
FailedCall(o) ==
  o.phase = "ret" /\ o.kind \in RegisterCalls /\ o.ret = FailureOf(o.kind)

C33_CaptureSourceReleased ==
  /\ [](\A w \in Workers :
          /\ pc[w] = "terminated" => ~is_camera_connected[w]
          /\ pc[w] \in WorkingStates \cup {"loop", "poll"} => is_camera_connected[w])
  /\ [][\A w \in Workers :
          (pc[w] = "loop" /\ pc'[w] = "terminated") =>
            /\ ~is_running[w]
            /\ is_camera_connected[w]
            /\ ~is_camera_connected'[w]
            /\ op'[w] = op[w]]_vars

C33_Witness ==
  \E w \in Workers :
    /\ pc[w] = "terminated"
    /\ ~is_running[w]
    /\ ~is_camera_connected[w]
    /\ status[w] = "Standby"
    /\ mpc = "stop_wait"
    /\ camera_workers[midx] = w

\* the writes to the class register of station w in a trace
ClassWrites(w, tr) ==
  {i \in 1 .. Len(tr) : tr[i].e = "W" /\ tr[i].a = Registers(w).class}

\* C34: a cycle has at most one write to the class register: exactly one
\* when the capture failed or the ImageReady write succeeded (a detection
\* that raises included), none when the Processing or the ImageReady write
\* failed; and a block write is attempted only after a class write of
\* Cuttable succeeded in the same cycle
C34_OneClassWrite ==
  \A w \in Workers :
    /\ Cardinality(ClassWrites(w, trace[w])) <= 1
    /\ (op[w].kind = "write" /\ op[w].addr = Registers(w).class) =>
         ClassWrites(w, trace[w]) = {}
    /\ CycleOver(w) =>
         Cardinality(ClassWrites(w, trace[w])) =
           IF \/ Len(trace[w]) >= 2 /\ trace[w][2] = Ev("CAP", 0, <<>>, FALSE)
              \/ Len(trace[w]) >= 3 /\
                   trace[w][3] = Ev("W", Registers(w).trigger, <<IMAGE_READY>>, TRUE)
             THEN 1 ELSE 0
    /\ op[w].kind = "write_multi" =>
         \E i \in 1 .. Len(trace[w]) :
           trace[w][i] = Ev("W", Registers(w).class, <<CUTTABLE>>, TRUE)

C34_Witness ==
  \E w \in Workers :
    /\ CycleOver(w)
    /\ Len(trace[w]) = 5
    /\ trace[w][4] = Ev("DET", 0, <<>>, FALSE)
    /\ trace[w][5] = Ev("W", Registers(w).class, <<UNKNOWN>>, TRUE)

\* C35: whenever a station is back at its poll loop after a cycle ended, by
\* whatever exit, the last status it emitted is Standby
C35_StandbyAfterCycle ==
  \A w \in Workers : CycleOver(w) => status[w] = "Standby"

\* C36: at most one running CameraWorker exists per station: no sequence of
\* start_system and stop_system, a start_system that fails part-way after
\* some workers were started included, leaves two live workers polling the
\* same trigger register
C36_OneWorkerPerStation ==
  \A i, j \in DOMAIN threads :
    (i # j /\ threads[i].pc = "loop" /\ threads[j].pc = "loop") =>
      Registers(camera_workers[i]).trigger # Registers(camera_workers[j]).trigger

\* C37: every PlcManager operation releases the link lock on every exit path
\* (success, not connected, range rejection, transport exception): the lock
\* is held only by a thread that is inside the transport call, which can
\* always finish, and once no thread is there any caller can take the lock
C37_LockReleased ==
  /\ \A t \in Threads : lock = t => op[t].phase = "tx"
  /\ \A t \in Threads : op[t].phase = "tx" => lock = t /\ ENABLED PlcExecute(t)
  /\ \A u \in Clients :
       (op[u].phase = "call" /\ \A t \in Clients \ {u} : op[t].phase # "tx") =>
         ENABLED PlcEnter(u)

C37_Witness ==
  \E t, u \in Clients :
    /\ t # u
    /\ Returned(t)
    /\ op[t].kind \in RegisterCalls
    /\ op[t].log = "failed"
    /\ op[u].phase = "tx"
    /\ lock = u

\* C38: a transport failure in a register operation leaves the connected flag
\* unchanged: the flag changes only when connect() or disconnect() returns,
\* and no register operation that returns, failed ones included, changes it
C38_ConnectedOnlyByConnect ==
  [][/\ connected' # connected =>
          \E t \in Threads : /\ op[t].phase = "tx"
                             /\ op'[t].phase = "ret"
                             /\ op[t].kind \in {"connect", "disconnect"}
     /\ \A t \in Threads :
          (op[t].phase = "tx" /\ op'[t].phase = "ret" /\ op[t].kind \in RegisterCalls) =>
            connected' = connected]_vars

C38_Witness ==
  \E t \in Clients :
    /\ connected
    /\ Returned(t)
    /\ op[t].kind = "read"
    /\ op[t].ret = None
    /\ op[t].log = "failed"

\* C39: every value handed to the transport in a register write (trigger
\* values, classification, block values) is an integer within the signed
\* 16-bit range -32768..32767, whatever the detector returned
C39_TransportValuesInt16 ==
  \A t \in Threads :
    (op[t].phase = "tx" /\ op[t].kind \in {"write", "write_multi"}) =>
      \A i \in 1 .. Len(op[t].vals) :
        /\ op[t].vals[i].isint
        /\ op[t].vals[i].v \in -32768 .. 32767

C39_Witness ==
  \E w \in Workers :
    /\ pc[w] = "w_class"
    /\ op[w].phase = "tx"
    /\ op[w].kind = "write"
    /\ op[w].addr = Registers(w).class
    /\ op[w].vals = <<PyInt(CUTTABLE)>>
    /\ result[w].classification = CUTTABLE
====
